---- MODULE Spec2Model ----
(***************************************************************************)
(* A model of the VS Code language-intelligence bridge:                    *)
(*   - the HTTP bridge and the stdio MCP server that dispatch tool calls,  *)
(*   - the symbol provider with its cold-start retries and the process-    *)
(*     wide language readiness state,                                      *)
(*   - the symbol-based tool handlers (debug, extract method, call         *)
(*     hierarchy, definition) acting on the host's breakpoints and edits.  *)
(* Each part has its own specification over the shared variables.          *)
(***************************************************************************)
EXTENDS Integers, Sequences, FiniteSets, TLC

VARIABLES
    reqs,           \* the requests seen by the dispatchers, by request id
    crashed,        \* the process died of an uncaught error
    initializedLanguages,       \* symbolProvider: the languages recorded as ready
    hasCheckedLanguageServers,  \* symbolProvider: the initial check was done
    calls,          \* the symbolProvider calls in flight, by caller
    succeededLangs, \* the languages for which a symbol query has succeeded
    lastOp,         \* the operation that made the last step
    breakpoints,    \* vscode.debug.breakpoints: the source breakpoints, in order
    edited,         \* the files an extract method edit was applied to
    saved,          \* the files saved after an edit
    lastCall,       \* the last tool call: its arguments, host answer and result
    lookup,         \* the references or definition call in progress, and its result
    dirty,          \* the documents with changes that were not saved
    refactor,       \* the last refactor call: its arguments, host answers and result
    activeDebugSession, \* vscode.debug.activeDebugSession: its id, or none
    outputs,        \* debugOutputTracker: the recorded output entries, in order
    debugCall,      \* the debug call in progress: its arguments and result
    collection,     \* the workspaceSymbols call in progress: its files so far
    httpBridge,     \* extension: whether the httpBridge variable is set
    listening,      \* whether the bridge's HTTP server listens on the port
    portInUse,      \* whether another process holds the port
    serverCommand   \* the start/stop command in progress and the last message

bridgeVars == <<reqs, crashed>>
symVars == <<initializedLanguages, hasCheckedLanguageServers, calls, succeededLangs, lastOp>>
toolVars == <<breakpoints, edited, saved, lastCall>>
lookupVars == <<lookup>>
refactorVars == <<dirty, refactor>>
debugVars == <<activeDebugSession, outputs, debugCall>>
collectionVars == <<collection>>
extensionVars == <<httpBridge, listening, portInUse, serverCommand>>
nonBridgeVars == <<symVars, toolVars, lookupVars, refactorVars, debugVars,
      collectionVars, extensionVars>>
nonSymVars == <<bridgeVars, toolVars, lookupVars, refactorVars, debugVars,
      collectionVars, extensionVars>>
nonToolVars == <<bridgeVars, symVars, lookupVars, refactorVars, debugVars,
      collectionVars, extensionVars>>
nonLookupVars == <<bridgeVars, symVars, toolVars, refactorVars, debugVars,
      collectionVars, extensionVars>>
nonRefactorVars == <<bridgeVars, symVars, toolVars, lookupVars, debugVars,
      collectionVars, extensionVars>>
nonDebugVars == <<bridgeVars, symVars, toolVars, lookupVars, refactorVars,
      collectionVars, extensionVars>>
nonCollectionVars == <<bridgeVars, symVars, toolVars, lookupVars, refactorVars, debugVars,
      extensionVars>>
nonExtensionVars == <<bridgeVars, symVars, toolVars, lookupVars, refactorVars, debugVars,
      collectionVars>>
vars == <<reqs, crashed, initializedLanguages, hasCheckedLanguageServers, calls,
          succeededLangs, lastOp, breakpoints, edited, saved, lastCall,
          lookup, dirty, refactor, activeDebugSession, outputs, debugCall,
          collection, httpBridge, listening, portInUse, serverCommand>>

\* ------------------------------------------------------------------ bounds
MaxReqs == 2
MaxBps == 1
MaxCalls == 2
MaxOutputs == 2
MaxFilesArg == 3
MaxStarts == 5

\* ------------------------------------------------------- the tool registry
\* An argument object is a set of <<field, primitive type, value>> entries.
Str(f, v) == <<f, "string", v>>
Num(f, v) == <<f, "number", v>>
Fields(args) == {e[1] : e \in args}

NoEnum == {}

\* inputSchema of the registered tools: required fields, and per property its
\* declared primitive type and enum (NoEnum when the property has none).
FormatProp == [type |-> "string", enum |-> {"compact", "detailed"}]
StringProp == [type |-> "string", enum |-> NoEnum]
NumberProp == [type |-> "number", enum |-> NoEnum]
BooleanProp == [type |-> "boolean", enum |-> NoEnum]

hoverTool ==
    [name |-> "hover",
     required |-> {"uri", "line", "character"},
     properties |-> [uri |-> StringProp, line |-> NumberProp, character |-> NumberProp]]

definitionTool ==
    [name |-> "definition",
     required |-> {},
     properties |-> [symbol |-> StringProp, uri |-> StringProp, line |-> NumberProp,
                     character |-> NumberProp, format |-> FormatProp]]

diagnosticsTool ==
    [name |-> "diagnostics",
     required |-> {},
     properties |-> [uri |-> StringProp]]

referencesTool ==
    [name |-> "references",
     required |-> {},
     properties |-> [symbol |-> StringProp, uri |-> StringProp, line |-> NumberProp,
                     character |-> NumberProp, includeDeclaration |-> BooleanProp,
                     format |-> FormatProp]]

debugTool ==
    [name |-> "debug",
     required |-> {"action"},
     properties |->
        [action |-> [type |-> "string",
                     enum |-> {"help", "setBreakpoint", "toggleBreakpoint",
                               "clearBreakpoints", "listBreakpoints",
                               "listConfigurations", "status", "start", "stop"}],
         symbol |-> StringProp, file |-> StringProp, line |-> NumberProp,
         condition |-> StringProp, hitCondition |-> StringProp,
         logMessage |-> StringProp, configuration |-> StringProp,
         format |-> FormatProp]]

callHierarchyTool ==
    [name |-> "callHierarchy",
     required |-> {"symbol", "direction"},
     properties |->
        [symbol |-> StringProp, uri |-> StringProp,
         direction |-> [type |-> "string", enum |-> {"incoming", "outgoing", "both"}]]]

symbolSearchTool ==
    [name |-> "symbolSearch",
     required |-> {"query"},
     properties |->
        [query |-> StringProp,
         kind |-> [type |-> "string",
                   enum |-> {"all", "class", "function", "variable", "interface",
                             "namespace", "property", "method"}]]]

workspaceSymbolsTool ==
    [name |-> "workspaceSymbols",
     required |-> {},
     properties |-> [includeDetails |-> BooleanProp, filePattern |-> StringProp,
                     maxFiles |-> NumberProp, includeExternalSymbols |-> BooleanProp,
                     includeNonCodeFiles |-> BooleanProp]]

\* getTools with the debug descriptor registered a second time.
getTools_DebugTwice ==
    <<hoverTool, definitionTool, diagnosticsTool, referencesTool, debugTool,
      callHierarchyTool, symbolSearchTool, workspaceSymbolsTool, debugTool>>

\* getTools(): the flat ordered list of descriptors.
getTools ==
    <<hoverTool, definitionTool, diagnosticsTool, referencesTool, debugTool,
      callHierarchyTool, symbolSearchTool, workspaceSymbolsTool>>

\* GET /tools: tools.map((t) => ({name, description, inputSchema})), by name.
toolsListing == [k \in 1..Len(getTools) |-> getTools[k].name]

\* tools.find((t) => t.name === tool): the index of the first descriptor with
\* that name, 0 when there is none.
FindTool(tools, name) ==
    LET hits == {i \in 1..Len(tools) : tools[i].name = name}
    IN  IF hits = {} THEN 0 ELSE CHOOSE i \in hits : \A j \in hits : i <= j

\* validateToolArguments(args, inputSchema): required fields present, declared
\* primitive types matching, enum values valid.
validateToolArguments(args, schema) ==
    LET missing == {f \in schema.required : f \notin Fields(args)}
        known == {e \in args : e[1] \in DOMAIN schema.properties}
        badType == {e \in known : e[2] # schema.properties[e[1]].type}
        badEnum == {e \in known \ badType :
                       /\ schema.properties[e[1]].enum # NoEnum
                       /\ e[3] \notin schema.properties[e[1]].enum}
    IN  IF missing # {} THEN [valid |-> FALSE, error |-> "missing_required"]
        ELSE IF badType # {} THEN [valid |-> FALSE, error |-> "bad_type"]
        ELSE IF badEnum # {} THEN [valid |-> FALSE, error |-> "bad_enum"]
        ELSE [valid |-> TRUE, error |-> "none"]

\* ------------------------------------------------------ request inputs
Undefined == "undefined"

\* The args of a request body: absent, or an argument object.
NoArgs == [defined |-> FALSE, fields |-> {}]
Args(fields) == [defined |-> TRUE, fields |-> fields]

ArgChoices ==
    { NoArgs,
      Args({}),
      Args({Str("action", "status")}),
      Args({Str("action", "bogus")}),
      Args({Num("action", "5")}),
      Args({Str("symbol", "add"), Str("direction", "incoming")}) }

\* The tool names clients ask for (the name may be absent: Undefined).
ToolNames == {"debug", "callHierarchy", "nosuch", Undefined}

\* args || {}
OrEmpty(args) == IF args.defined THEN args.fields ELSE {}

ReqIds == 1..MaxReqs

\* A request: where it stands (pc), what it asked, and what has happened to it
\* so far: the handler calls made for it, the handler's outcome, the responses
\* written. afterThrow records that it arrived after some handler had thrown.
IdleReq ==
    [pc |-> "idle", via |-> "none", route |-> "none", parsed |-> FALSE,
     tool |-> Undefined, args |-> NoArgs, handlerCalls |-> 0,
     outcome |-> "none", responses |-> 0, status |-> 0, payload |-> "none",
     afterThrow |-> FALSE]

SomeHandlerThrew == \E j \in ReqIds : reqs[j].outcome = "throws"

Arrive(r, via, route) ==
    [r EXCEPT !.via = via, !.route = route, !.afterThrow = SomeHandlerThrew]

\* res.writeHead(status); res.end(payload): one response written.
Respond(r, status, payload) ==
    [r EXCEPT !.pc = "done", !.responses = @ + 1, !.status = status,
              !.payload = payload]

\* --------------------------------------------------------- the HTTP bridge
\* PostToolEnd with the validation verdict ignored: the handler is called
\* whatever the arguments.
PostToolEnd_NoValidation(r, parsed, tool, args) ==
    LET r0 == [Arrive(r, "http", "POST /tool") EXCEPT
                  !.parsed = parsed,
                  !.tool = IF parsed THEN tool ELSE Undefined,
                  !.args = IF parsed THEN args ELSE NoArgs]
    IN  IF ~parsed THEN Respond(r0, 500, "error")
        ELSE IF FindTool(getTools, tool) = 0 THEN Respond(r0, 404, "error")
        ELSE [r0 EXCEPT !.pc = "running", !.handlerCalls = @ + 1]

\* PostToolEnd with the validation failure answered as a server error.
PostToolEnd_Invalid500(r, parsed, tool, args) ==
    LET r0 == [Arrive(r, "http", "POST /tool") EXCEPT
                  !.parsed = parsed,
                  !.tool = IF parsed THEN tool ELSE Undefined,
                  !.args = IF parsed THEN args ELSE NoArgs]
        toolImpl == FindTool(getTools, tool)
    IN  IF ~parsed THEN Respond(r0, 500, "error")
        ELSE IF toolImpl = 0 THEN Respond(r0, 404, "error")
        ELSE IF ~validateToolArguments(OrEmpty(args), getTools[toolImpl]).valid
             THEN Respond(r0, 500, "error")
        ELSE [r0 EXCEPT !.pc = "running", !.handlerCalls = @ + 1]

\* req.on('end'): parse the body, find the tool, validate the arguments, and
\* call the handler. `parsed` is whether JSON.parse(body) gave a value that
\* destructures; a body that does not lands in the catch block.
PostToolEnd(r, parsed, tool, args) ==
    LET r0 == [Arrive(r, "http", "POST /tool") EXCEPT
                  !.parsed = parsed,
                  !.tool = IF parsed THEN tool ELSE Undefined,
                  !.args = IF parsed THEN args ELSE NoArgs]
        tools == getTools
        toolImpl == FindTool(tools, tool)
    IN  IF ~parsed THEN Respond(r0, 500, "error")
        ELSE IF toolImpl = 0 THEN Respond(r0, 404, "error")
        ELSE IF ~validateToolArguments(OrEmpty(args), tools[toolImpl]).valid
             THEN Respond(r0, 400, "error")
        ELSE [r0 EXCEPT !.pc = "running", !.handlerCalls = @ + 1]

\* The handler's promise resolved: 200 {result}.
OnHandlerResult(r) ==
    Respond([r EXCEPT !.outcome = "returns"], 200, "result")

\* OnHandlerError without the try/catch: the rejection is unhandled, nothing
\* is written and the process dies.
OnHandlerError_Uncaught(r) ==
    [req |-> [r EXCEPT !.outcome = "throws"], crashed |-> TRUE]

\* The handler's promise rejected: the catch block answers 500 {error}; the
\* process goes on.
OnHandlerError(r) ==
    [req |-> Respond([r EXCEPT !.outcome = "throws"], 500, "error"),
     crashed |-> FALSE]

PostTool(i) ==
    /\ ~crashed
    /\ reqs[i].pc = "idle"
    /\ \E parsed \in BOOLEAN, tool \in ToolNames, args \in ArgChoices :
          reqs' = [reqs EXCEPT ![i] = PostToolEnd(reqs[i], parsed, tool, args)]
    /\ UNCHANGED crashed

HandlerReturns(i) ==
    /\ ~crashed
    /\ reqs[i].pc = "running"
    /\ reqs[i].via = "http"
    /\ reqs' = [reqs EXCEPT ![i] = OnHandlerResult(reqs[i])]
    /\ UNCHANGED crashed

HandlerThrows(i) ==
    /\ ~crashed
    /\ reqs[i].pc = "running"
    /\ reqs[i].via = "http"
    /\ LET o == OnHandlerError(reqs[i])
       IN  /\ reqs' = [reqs EXCEPT ![i] = o.req]
           /\ crashed' = o.crashed

\* GET /tools: the descriptors in registry order.
GetToolsRoute(i) ==
    /\ ~crashed
    /\ reqs[i].pc = "idle"
    /\ reqs' = [reqs EXCEPT ![i] = Respond(Arrive(reqs[i], "http", "GET /tools"), 200, "tools")]
    /\ UNCHANGED crashed

\* GET /health: {status: 'ok', port}.
GetHealthRoute(i) ==
    /\ ~crashed
    /\ reqs[i].pc = "idle"
    /\ reqs' = [reqs EXCEPT ![i] = Respond(Arrive(reqs[i], "http", "GET /health"), 200, "health")]
    /\ UNCHANGED crashed

\* OPTIONS (the CORS preflight): 200 with no body.
OptionsRoute(i) ==
    /\ ~crashed
    /\ reqs[i].pc = "idle"
    /\ reqs' = [reqs EXCEPT ![i] = Respond(Arrive(reqs[i], "http", "OPTIONS"), 200, "empty")]
    /\ UNCHANGED crashed

\* Any other method or url: 404 with no body.
OtherRoute(i) ==
    /\ ~crashed
    /\ reqs[i].pc = "idle"
    /\ reqs' = [reqs EXCEPT ![i] = Respond(Arrive(reqs[i], "http", "other"), 404, "empty")]
    /\ UNCHANGED crashed

\* ------------------------------------------------- the stdio MCP server
\* CallToolRequest: an unknown tool throws to the SDK (a protocol error
\* response); a known tool's handler is called with the arguments as sent.
McpCallToolStart(r, tool, args) ==
    LET r0 == [Arrive(r, "mcp", "tools/call") EXCEPT
                  !.parsed = TRUE, !.tool = tool, !.args = args]
    IN  IF FindTool(getTools, tool) = 0
        THEN [r0 EXCEPT !.pc = "done", !.responses = @ + 1, !.payload = "rpc_error"]
        ELSE [r0 EXCEPT !.pc = "running", !.handlerCalls = @ + 1]

\* The handler returned: the result as text content.
McpOnHandlerResult(r) ==
    [r EXCEPT !.pc = "done", !.outcome = "returns", !.responses = @ + 1,
              !.payload = "result"]

\* The handler threw: caught, and answered as "Error: <message>" content.
McpOnHandlerError(r) ==
    [req |-> [r EXCEPT !.pc = "done", !.outcome = "throws", !.responses = @ + 1,
                       !.payload = "error"],
     crashed |-> FALSE]

McpCallTool(i) ==
    /\ ~crashed
    /\ reqs[i].pc = "idle"
    /\ \E tool \in ToolNames \ {Undefined}, args \in ArgChoices :
          reqs' = [reqs EXCEPT ![i] = McpCallToolStart(reqs[i], tool, args)]
    /\ UNCHANGED crashed

McpHandlerReturns(i) ==
    /\ ~crashed
    /\ reqs[i].pc = "running"
    /\ reqs[i].via = "mcp"
    /\ reqs' = [reqs EXCEPT ![i] = McpOnHandlerResult(reqs[i])]
    /\ UNCHANGED crashed

McpHandlerThrows(i) ==
    /\ ~crashed
    /\ reqs[i].pc = "running"
    /\ reqs[i].via = "mcp"
    /\ LET o == McpOnHandlerError(reqs[i])
       IN  /\ reqs' = [reqs EXCEPT ![i] = o.req]
           /\ crashed' = o.crashed

InitBridgeVars ==
    /\ reqs = [i \in ReqIds |-> IdleReq]
    /\ crashed = FALSE

NextBridge ==
    \E i \in ReqIds :
        \/ PostTool(i) /\ UNCHANGED nonBridgeVars
        \/ HandlerReturns(i) /\ UNCHANGED nonBridgeVars
        \/ HandlerThrows(i) /\ UNCHANGED nonBridgeVars
        \/ GetToolsRoute(i) /\ UNCHANGED nonBridgeVars
        \/ GetHealthRoute(i) /\ UNCHANGED nonBridgeVars
        \/ OptionsRoute(i) /\ UNCHANGED nonBridgeVars
        \/ OtherRoute(i) /\ UNCHANGED nonBridgeVars
        \/ McpCallTool(i) /\ UNCHANGED nonBridgeVars
        \/ McpHandlerReturns(i) /\ UNCHANGED nonBridgeVars
        \/ McpHandlerThrows(i) /\ UNCHANGED nonBridgeVars

\* ------------------------------------------------------------ C1 .. C3
IsPostTool(r) == r.via = "http" /\ r.route = "POST /tool"

Registered(r) == FindTool(getTools, r.tool) # 0

ArgsValid(r) ==
    validateToolArguments(OrEmpty(r.args), getTools[FindTool(getTools, r.tool)]).valid

\* C1: every POST /tool request gets exactly one response: none while it is
\* in flight, one once it is done; and for a body that carries a tool name
\* the status is 404 for an unregistered name, else 400 for arguments that
\* fail the tool's inputSchema, else 200 {result} when the handler returned
\* and 500 {error} when it threw.
C1_PostToolStatus ==
    \A i \in ReqIds :
        LET r == reqs[i]
        IN  IsPostTool(r) =>
              /\ r.responses = (IF r.pc = "done" THEN 1 ELSE 0)
              /\ (r.pc = "done" /\ r.parsed) =>
                    /\ r.status =
                          (IF ~Registered(r) THEN 404
                           ELSE IF ~ArgsValid(r) THEN 400
                           ELSE IF r.outcome = "returns" THEN 200
                           ELSE 500)
                    /\ r.payload = (IF r.status = 200 THEN "result" ELSE "error")
                    /\ (Registered(r) /\ ArgsValid(r)) => r.outcome \in {"returns", "throws"}

\* The four statuses of C1 happen: a rejected request and a served one.
C1_Witness ==
    \E i, j \in ReqIds :
        /\ IsPostTool(reqs[i]) /\ reqs[i].pc = "done"
        /\ reqs[i].status \in {400, 404} /\ reqs[i].parsed
        /\ IsPostTool(reqs[j]) /\ reqs[j].pc = "done"
        /\ reqs[j].status \in {200, 500} /\ reqs[j].outcome # "none"

\* C2: a POST /tool request for a registered tool whose arguments fail the
\* schema validation never has the tool's handler called for it.
C2_NoHandlerOnInvalidArgs ==
    \A i \in ReqIds :
        LET r == reqs[i]
        IN  (IsPostTool(r) /\ r.parsed /\ Registered(r) /\ ~ArgsValid(r)) =>
               (r.handlerCalls = 0 /\ r.outcome = "none")

\* A request with invalid arguments for a registered tool was answered.
C2_Witness ==
    \E i \in ReqIds :
        /\ IsPostTool(reqs[i]) /\ reqs[i].parsed /\ reqs[i].pc = "done"
        /\ Registered(reqs[i]) /\ ~ArgsValid(reqs[i])

\* C3: a handler that throws does not take the dispatcher down: the
\* invocation is answered with an error payload, the process lives, and
\* every request yet to come can still be answered on /health, /tools and
\* /tool.
C3_HandlerThrowIsAnswered ==
    \A i \in ReqIds :
        reqs[i].outcome = "throws" =>
            /\ reqs[i].pc = "done"
            /\ reqs[i].responses = 1
            /\ reqs[i].payload = "error"
            /\ ~crashed
            /\ \A j \in ReqIds :
                  reqs[j].pc = "idle" =>
                     /\ ENABLED GetHealthRoute(j)
                     /\ ENABLED GetToolsRoute(j)
                     /\ ENABLED PostTool(j)

\* After a handler threw, a later tool request was served with 200.
C3_Witness ==
    \E i \in ReqIds :
        /\ reqs[i].afterThrow
        /\ IsPostTool(reqs[i])
        /\ reqs[i].pc = "done"
        /\ reqs[i].status = 200

\* ------------------------------------------------- the symbol provider
CallIds == 1..MaxCalls

\* The languages of the documents of the workspace; the document of a symbol
\* or a workspace file may also fail to open ("broken").
Langs == {"typescript", "python"}
Broken == "broken"

\* The languages getDocumentSymbols is asked about: a known one and one that
\* is not in knownLanguages.
knownLanguages ==
    {"typescript", "javascript", "python", "java", "csharp", "go", "rust",
     "ruby", "php", "cpp", "c"}
DocLangs == {"python", "plaintext"}

\* What the host answers to a symbol query: undefined, or a list of symbols,
\* each given by the language of its document.
NoResult == [defined |-> FALSE, syms |-> <<>>]
Result(syms) == [defined |-> TRUE, syms |-> syms]
HostResults == {NoResult, Result(<<>>), Result(<<"typescript", Broken>>)}

\* What the host answers to a document symbol query: undefined, or an outline
\* (which may be empty).
DocResults == {NoResult, Result(<<>>)}

\* workspace.findFiles(...): the files found, each by the language of its
\* document.
FileLists == {<<>>, <<"python", Broken>>}

\* The maxRetries arguments callers pass.
MaxRetriesChoices == {0, 1, 4}

retryDelays == <<1000, 3000, 10000>>
commonQueries == <<"", "constructor", "main", "init", "test", "class", "function">>

Min(a, b) == IF a < b THEN a ELSE b

\* !symbols || symbols.length === 0
IsEmpty(res) == ~res.defined \/ Len(res.syms) = 0

\* symbols === undefined || symbols === null
IsNull(res) == ~res.defined

\* The languages a successful workspace symbol query has answered for.
LangsOf(res) == {res.syms[n] : n \in 1..Len(res.syms)} \ {Broken}

IdleCall ==
    [pc |-> "idle", kind |-> "none", maxRetries |-> 0, lang |-> "none",
     files |-> <<>>, k |-> 0, after |-> "none", symbols |-> NoResult,
     nQueries |-> 0, waits |-> <<>>, eQueries |-> 0, eWaits |-> 0,
     readyAtEmpty |-> FALSE, succAt |-> 0, succList |-> NoResult,
     ran |-> FALSE, sinceReset |-> FALSE, ret |-> NoResult]

\* The call goes on to mark the languages of `res` and then to `after`; with
\* nothing to mark it is at `after` at once.
\* (for (const symbol of symbols) { try { open; add } catch {} })
MarkThen(c, res, after) ==
    [c EXCEPT !.symbols = res, !.k = 1, !.after = after, !.pc = "mark"]

\* ensureLanguageServersReady() has returned: hasCheckedLanguageServers is
\* set and the query for the caller's name is sent.
AfterEnsure(c) ==
    [c EXCEPT !.pc = "query", !.k = 0, !.files = <<>>, !.symbols = NoResult,
              !.after = "none", !.eQueries = 0, !.eWaits = 0]

\* return symbols || []
Return(c, res) == [c EXCEPT !.pc = "done", !.ret = Result(res.syms)]

\* The end of searchWorkspaceSymbols: mark the languages of a non-empty
\* result, then return it.
Finish(c, res) ==
    IF ~IsEmpty(res) THEN MarkThen(c, res, "return")
    ELSE Return([c EXCEPT !.symbols = res], res)

\* StartSearch with delays that block the process: no call starts while
\* another waits in a delay.
StartSearch_Blocking(i) ==
    /\ calls[i].pc = "idle"
    /\ \A j \in CallIds : calls[j].pc \notin {"delay", "e_delay", "d_delay"}
    /\ \E m \in MaxRetriesChoices :
          calls' = [calls EXCEPT ![i] =
                      [IdleCall EXCEPT
                          !.kind = "search", !.maxRetries = m,
                          !.ran = ~hasCheckedLanguageServers /\ m > 0,
                          !.sinceReset = ~hasCheckedLanguageServers /\ m > 0,
                          !.pc = IF ~hasCheckedLanguageServers /\ m > 0
                                 THEN "e_findFiles" ELSE "query"]]
    /\ lastOp' = "call"
    /\ UNCHANGED <<initializedLanguages, hasCheckedLanguageServers, succeededLangs>>

\* searchWorkspaceSymbols(query, maxRetries) is called: the readiness check
\* runs first when it has not run and retries are allowed.
StartSearch(i) ==
    /\ calls[i].pc = "idle"
    /\ \E m \in MaxRetriesChoices :
          calls' = [calls EXCEPT ![i] =
                      [IdleCall EXCEPT
                          !.kind = "search", !.maxRetries = m,
                          !.ran = ~hasCheckedLanguageServers /\ m > 0,
                          !.sinceReset = ~hasCheckedLanguageServers /\ m > 0,
                          !.pc = IF ~hasCheckedLanguageServers /\ m > 0
                                 THEN "e_findFiles" ELSE "query"]]
    /\ lastOp' = "call"
    /\ UNCHANGED <<initializedLanguages, hasCheckedLanguageServers, succeededLangs>>

\* ensureLanguageServersReady: findFiles answered.
EnsureFindFiles(i) ==
    /\ calls[i].pc = "e_findFiles"
    /\ \E fs \in FileLists :
          calls' = [calls EXCEPT ![i] =
                      IF Len(fs) > 0
                      THEN [@ EXCEPT !.files = fs, !.k = 1, !.pc = "e_open"]
                      ELSE [@ EXCEPT !.files = fs, !.k = 1, !.pc = "e_common"]]
    /\ lastOp' = "call"
    /\ UNCHANGED <<initializedLanguages, hasCheckedLanguageServers, succeededLangs>>

\* ensureLanguageServersReady: one of the first three files was opened and
\* shown (or failed to): its language is added to initializedLanguages.
EnsureOpenFile(i) ==
    LET c == calls[i]
        f == c.files[c.k]
        last == c.k + 1 > Min(3, Len(c.files))
    IN  /\ c.pc = "e_open"
        /\ initializedLanguages' =
              IF f = Broken THEN initializedLanguages
              ELSE initializedLanguages \cup {f}
        /\ calls' = [calls EXCEPT ![i] =
                        [@ EXCEPT !.k = c.k + 1,
                                  !.pc = IF last THEN "e_wait500" ELSE "e_open"]]
        /\ lastOp' = "call"
        /\ UNCHANGED <<hasCheckedLanguageServers, succeededLangs>>

\* ensureLanguageServersReady: the 500 ms given to the language servers.
EnsureWait500(i) ==
    /\ calls[i].pc = "e_wait500"
    /\ calls' = [calls EXCEPT ![i] =
                    [@ EXCEPT !.eWaits = @ + 1, !.k = 1, !.pc = "e_common"]]
    /\ lastOp' = "call"
    /\ UNCHANGED <<initializedLanguages, hasCheckedLanguageServers, succeededLangs>>

\* ensureLanguageServersReady: one of the common queries answered; a
\* non-empty answer ends the check.
EnsureCommonQuery(i) ==
    LET c == calls[i]
    IN  /\ c.pc = "e_common"
        /\ \E res \in HostResults :
              /\ calls' = [calls EXCEPT ![i] =
                    LET c1 == [c EXCEPT !.eQueries = @ + 1]
                    IN  IF ~IsEmpty(res) THEN MarkThen(c1, res, "ensured")
                        ELSE IF c.k < Len(commonQueries)
                             THEN [c1 EXCEPT !.k = c.k + 1]
                        ELSE [c1 EXCEPT !.k = 1, !.pc = "e_delay"]]
              /\ succeededLangs' = succeededLangs \cup LangsOf(res)
        /\ lastOp' = "call"
        /\ UNCHANGED <<initializedLanguages, hasCheckedLanguageServers>>

\* ensureLanguageServersReady: the delay before a retry with ''.
EnsureDelay(i) ==
    LET c == calls[i]
    IN  /\ c.pc = "e_delay"
        /\ calls' = [calls EXCEPT ![i] =
                        [c EXCEPT !.eWaits = @ + 1, !.pc = "e_retry"]]
        /\ lastOp' = "call"
        /\ UNCHANGED <<initializedLanguages, hasCheckedLanguageServers, succeededLangs>>

\* ensureLanguageServersReady: the retry with '' answered; a non-empty answer
\* ends the check, and so does the third empty one.
EnsureRetry(i) ==
    LET c == calls[i]
    IN  /\ c.pc = "e_retry"
        /\ \E res \in HostResults :
              /\ LET c1 == [c EXCEPT !.eQueries = @ + 1]
                     ended == IsEmpty(res) /\ c.k >= Len(retryDelays)
                 IN  /\ calls' = [calls EXCEPT ![i] =
                           IF ~IsEmpty(res) THEN MarkThen(c1, res, "ensured")
                           ELSE IF ended THEN AfterEnsure(c1)
                           ELSE [c1 EXCEPT !.k = c.k + 1, !.pc = "e_delay"]]
                     /\ hasCheckedLanguageServers' =
                           IF ended THEN TRUE ELSE hasCheckedLanguageServers
              /\ succeededLangs' = succeededLangs \cup LangsOf(res)
        /\ lastOp' = "call"
        /\ UNCHANGED initializedLanguages

\* The document of one symbol of a non-empty answer was opened (or failed
\* to): its language is added to initializedLanguages. After the last symbol
\* the readiness check returns, or searchWorkspaceSymbols returns the list.
MarkSymbol(i) ==
    LET c == calls[i]
        l == c.symbols.syms[c.k]
        last == c.k >= Len(c.symbols.syms)
    IN  /\ c.pc = "mark"
        /\ initializedLanguages' =
              IF l = Broken THEN initializedLanguages
              ELSE initializedLanguages \cup {l}
        /\ calls' = [calls EXCEPT ![i] =
              IF ~last THEN [c EXCEPT !.k = c.k + 1]
              ELSE IF c.after = "ensured" THEN AfterEnsure(c)
              ELSE Return(c, c.symbols)]
        /\ hasCheckedLanguageServers' =
              IF last /\ c.after = "ensured" THEN TRUE ELSE hasCheckedLanguageServers
        /\ lastOp' = "call"
        /\ UNCHANGED succeededLangs

\* Whether the retry loop is entered after an empty first answer.
RetriesAfterEmpty(c, res) ==
    IsEmpty(res) /\ c.maxRetries > 0 /\ 0 < Min(c.maxRetries, Len(retryDelays))

\* searchWorkspaceSymbols: the first query for the caller's name answered.
SearchQuery(i) ==
    LET c == calls[i]
    IN  /\ c.pc = "query"
        /\ \E res \in HostResults :
              /\ calls' = [calls EXCEPT ![i] =
                    LET c1 == [c EXCEPT
                                  !.nQueries = 1,
                                  !.readyAtEmpty = IsEmpty(res) /\ initializedLanguages # {},
                                  !.succAt = IF IsEmpty(res) THEN 0 ELSE 1,
                                  !.succList = IF IsEmpty(res) THEN NoResult ELSE res]
                    IN  IF RetriesAfterEmpty(c, res)
                        THEN [c1 EXCEPT !.symbols = res, !.k = 0, !.pc = "delay"]
                        ELSE Finish(c1, res)]
              /\ succeededLangs' = succeededLangs \cup LangsOf(res)
        /\ lastOp' = "call"
        /\ UNCHANGED <<initializedLanguages, hasCheckedLanguageServers>>

\* searchWorkspaceSymbols: the delay before retry k (0-based) has passed.
SearchDelay(i) ==
    LET c == calls[i]
    IN  /\ c.pc = "delay"
        /\ calls' = [calls EXCEPT ![i] =
                        [c EXCEPT !.waits = Append(@, retryDelays[c.k + 1]),
                                  !.pc = "retry"]]
        /\ lastOp' = "call"
        /\ UNCHANGED <<initializedLanguages, hasCheckedLanguageServers, succeededLangs>>

\* RetryAgain with the loop bounded by the delay table alone, maxRetries
\* ignored.
RetryAgain_IgnoresMaxRetries(c, res) == IsEmpty(res) /\ c.k + 1 < Len(retryDelays)

\* RetryAgain without the break on a non-empty answer.
RetryAgain_NoBreak(c, res) == c.k + 1 < Min(c.maxRetries, Len(retryDelays))

\* The retry loop goes round again after an empty answer to retry k.
RetryAgain(c, res) == IsEmpty(res) /\ c.k + 1 < Min(c.maxRetries, Len(retryDelays))

\* searchWorkspaceSymbols: retry k answered; a non-empty answer breaks out of
\* the loop.
SearchRetry(i) ==
    LET c == calls[i]
    IN  /\ c.pc = "retry"
        /\ \E res \in HostResults :
              /\ calls' = [calls EXCEPT ![i] =
                    LET c1 == [c EXCEPT
                                  !.nQueries = @ + 1,
                                  !.succAt = IF IsEmpty(res) \/ c.succAt # 0 THEN @
                                             ELSE c.nQueries + 1,
                                  !.succList = IF IsEmpty(res) \/ c.succAt # 0 THEN @
                                               ELSE res]
                    IN  IF RetryAgain(c, res)
                        THEN [c1 EXCEPT !.symbols = res, !.k = c.k + 1, !.pc = "delay"]
                        ELSE Finish(c1, res)]
              /\ succeededLangs' = succeededLangs \cup LangsOf(res)
        /\ lastOp' = "call"
        /\ UNCHANGED <<initializedLanguages, hasCheckedLanguageServers>>

\* The end of getDocumentSymbols: a non-null outline marks the language;
\* return symbols || null.
DocFinish(c, res) ==
    [c EXCEPT !.symbols = res, !.pc = "done", !.ret = res]

DocMarks(c, res) == IF IsNull(res) THEN {} ELSE {c.lang}

\* getDocumentSymbols(document) is called: the outline is asked for.
StartDoc(i) ==
    /\ calls[i].pc = "idle"
    /\ \E l \in DocLangs :
          calls' = [calls EXCEPT ![i] =
                      [IdleCall EXCEPT !.kind = "doc", !.lang = l, !.pc = "d_query"]]
    /\ lastOp' = "call"
    /\ UNCHANGED <<initializedLanguages, hasCheckedLanguageServers, succeededLangs>>

\* getDocumentSymbols: the first query answered; a null answer for a known
\* language not yet ready starts the retries.
DocQuery(i) ==
    LET c == calls[i]
    IN  /\ c.pc = "d_query"
        /\ \E res \in DocResults :
              LET c1 == [c EXCEPT !.nQueries = 1,
                                  !.succAt = IF IsNull(res) THEN 0 ELSE 1,
                                  !.succList = res]
                  retry == /\ IsNull(res)
                           /\ c.lang \notin initializedLanguages
                           /\ c.lang \in knownLanguages
              IN  /\ calls' = [calls EXCEPT ![i] =
                        IF retry THEN [c1 EXCEPT !.symbols = res, !.k = 0, !.pc = "d_delay"]
                        ELSE DocFinish(c1, res)]
                  /\ initializedLanguages' = initializedLanguages \cup DocMarks(c, res)
                  /\ succeededLangs' = succeededLangs \cup DocMarks(c, res)
        /\ lastOp' = "call"
        /\ UNCHANGED hasCheckedLanguageServers

\* getDocumentSymbols: the delay before retry k (0-based) has passed.
DocDelay(i) ==
    LET c == calls[i]
    IN  /\ c.pc = "d_delay"
        /\ calls' = [calls EXCEPT ![i] =
                        [c EXCEPT !.waits = Append(@, retryDelays[c.k + 1]),
                                  !.pc = "d_retry"]]
        /\ lastOp' = "call"
        /\ UNCHANGED <<initializedLanguages, hasCheckedLanguageServers, succeededLangs>>

\* getDocumentSymbols: retry k answered; a non-null answer marks the language
\* and breaks out of the loop.
DocRetry(i) ==
    LET c == calls[i]
    IN  /\ c.pc = "d_retry"
        /\ \E res \in DocResults :
              LET c1 == [c EXCEPT !.nQueries = @ + 1,
                                  !.succAt = IF IsNull(res) THEN 0 ELSE c.nQueries + 1,
                                  !.succList = res]
                  again == IsNull(res) /\ c.k + 1 < Len(retryDelays)
              IN  /\ calls' = [calls EXCEPT ![i] =
                        IF again THEN [c1 EXCEPT !.symbols = res, !.k = c.k + 1, !.pc = "d_delay"]
                        ELSE DocFinish(c1, res)]
                  /\ initializedLanguages' = initializedLanguages \cup DocMarks(c, res)
                  /\ succeededLangs' = succeededLangs \cup DocMarks(c, res)
        /\ lastOp' = "call"
        /\ UNCHANGED hasCheckedLanguageServers

\* resetInitializedLanguages that clears the set and leaves the flag.
resetInitializedLanguages_SetOnly ==
    /\ initializedLanguages' = {}
    /\ lastOp' = "reset"
    /\ calls' = [i \in CallIds |-> [calls[i] EXCEPT !.sinceReset = FALSE]]
    /\ UNCHANGED <<hasCheckedLanguageServers, succeededLangs>>

\* resetInitializedLanguages()
resetInitializedLanguages ==
    /\ initializedLanguages' = {}
    /\ hasCheckedLanguageServers' = FALSE
    /\ calls' = [i \in CallIds |-> [calls[i] EXCEPT !.sinceReset = FALSE]]
    /\ lastOp' = "reset"
    /\ UNCHANGED succeededLangs

InitSymVars ==
    /\ initializedLanguages = {}
    /\ hasCheckedLanguageServers = FALSE
    /\ calls = [i \in CallIds |-> IdleCall]
    /\ succeededLangs = {}
    /\ lastOp = "call"

NextSymbols ==
    \/ \E i \in CallIds :
          \/ StartSearch(i) /\ UNCHANGED nonSymVars
          \/ EnsureFindFiles(i) /\ UNCHANGED nonSymVars
          \/ EnsureOpenFile(i) /\ UNCHANGED nonSymVars
          \/ EnsureWait500(i) /\ UNCHANGED nonSymVars
          \/ EnsureCommonQuery(i) /\ UNCHANGED nonSymVars
          \/ EnsureDelay(i) /\ UNCHANGED nonSymVars
          \/ EnsureRetry(i) /\ UNCHANGED nonSymVars
          \/ MarkSymbol(i) /\ UNCHANGED nonSymVars
          \/ SearchQuery(i) /\ UNCHANGED nonSymVars
          \/ SearchDelay(i) /\ UNCHANGED nonSymVars
          \/ SearchRetry(i) /\ UNCHANGED nonSymVars
          \/ StartDoc(i) /\ UNCHANGED nonSymVars
          \/ DocQuery(i) /\ UNCHANGED nonSymVars
          \/ DocDelay(i) /\ UNCHANGED nonSymVars
          \/ DocRetry(i) /\ UNCHANGED nonSymVars
    \/ resetInitializedLanguages /\ UNCHANGED nonSymVars

\* ------------------------------------------------------------ C4 .. C8
IsSearch(c) == c.kind = "search"

\* C4: once a language is recorded as ready, a searchWorkspaceSymbols call
\* whose query comes back empty does not wait through all three escalating
\* delays. (readyAtEmpty: some language was recorded when the first answer
\* came back empty.)
C4_NoFullWaitOnceReady ==
    \A i \in CallIds :
        (IsSearch(calls[i]) /\ calls[i].readyAtEmpty) => Len(calls[i].waits) < 3

\* C5: one searchWorkspaceSymbols call asks the host for its query at most
\* min(maxRetries, 3) times after the first attempt, having waited 1000,
\* 3000 and 10000 ms in that order before the retries; with maxRetries = 0
\* there is no retry, no delay and no readiness check; the queries and waits
\* of the readiness check are bounded too.
C5_BoundedRetries ==
    \A i \in CallIds :
        LET c == calls[i]
            retries == IF c.maxRetries < 3 THEN c.maxRetries ELSE 3
        IN  IsSearch(c) =>
              /\ c.nQueries <= 1 + retries
              /\ Len(c.waits) <= retries
              /\ c.waits = SubSeq(<<1000, 3000, 10000>>, 1, Len(c.waits))
              /\ Len(c.waits) = (IF c.pc = "retry" THEN c.nQueries
                                 ELSE IF c.nQueries = 0 THEN 0 ELSE c.nQueries - 1)
              /\ c.maxRetries = 0 => (c.nQueries <= 1 /\ c.waits = <<>> /\ ~c.ran)
              /\ c.eQueries <= 10
              /\ c.eWaits <= 4

\* A call with maxRetries above 3 has made its three retries, each after its
\* delay.
C5_Witness ==
    \E i \in CallIds :
        /\ IsSearch(calls[i]) /\ calls[i].pc = "done"
        /\ calls[i].maxRetries = 4
        /\ calls[i].nQueries = 4
        /\ calls[i].waits = <<1000, 3000, 10000>>

\* C6: as soon as an attempt (the first query or a retry) succeeds, the call
\* makes no further query and no further delay, and it returns the list of
\* that attempt. (succAt: the attempt that first succeeded, 0 for none.)
C6_EarlyExitOnSuccess ==
    \A i \in CallIds :
        LET c == calls[i]
        IN  c.succAt # 0 =>
              /\ c.nQueries = c.succAt
              /\ Len(c.waits) = c.succAt - 1
              /\ c.pc \in {"mark", "done"}
              /\ c.pc = "done" => c.ret = c.succList

\* A search succeeded on its first retry and returned that list.
C6_Witness ==
    \E i \in CallIds :
        /\ IsSearch(calls[i]) /\ calls[i].pc = "done"
        /\ calls[i].succAt = 2
        /\ calls[i].ret = calls[i].succList
        /\ Len(calls[i].ret.syms) > 0

\* C7: every language in the readiness state has had a symbol query for a
\* document of that language succeed.
C7_ReadyOnlyAfterQuerySuccess == initializedLanguages \subseteq succeededLangs

\* C8: the set of ready languages only grows from step to step, except in a
\* step of resetInitializedLanguages(), which leaves the startup state: no
\* language ready and the readiness check not done.
C8_ReadinessGrowsUntilReset ==
    [][IF lastOp' = "reset"
       THEN initializedLanguages' = {} /\ hasCheckedLanguageServers' = FALSE
       ELSE initializedLanguages \subseteq initializedLanguages']_vars

\* A reset after a search whose readiness check ran and whose query
\* succeeded: the set and the flag had been set, and are cleared.
C8_Witness ==
    /\ lastOp = "reset"
    /\ initializedLanguages = {}
    /\ ~hasCheckedLanguageServers
    /\ \E i \in CallIds :
          /\ IsSearch(calls[i]) /\ calls[i].pc = "done"
          /\ calls[i].ran /\ calls[i].succAt # 0

\* ---------------------------------------------------------------- tools
\* Symbol names are sequences of characters, so that split('.'), startsWith
\* and the stripping of a trailing "()" are computed.
NoName == <<>>
add == <<"a", "d", "d">>
addCall == <<"a", "d", "d", "(", ")">>
Calc == <<"C", "a", "l", "c">>
sub == <<"s", "u", "b">>
CalcAdd == <<"C", "a", "l", "c", ".", "a", "d", "d">>

NoLine == -1
NoUri == ""

\* The host's workspace symbol index: a function add in one file, a class
\* Calc with a method add in another, and a function the host lists as
\* "add()" in a third.
Workspace ==
    << [name |-> add, containerName |-> NoName, uri |-> "a.ts", line |-> 0],
       [name |-> add, containerName |-> Calc, uri |-> "b.ts", line |-> 1],
       [name |-> Calc, containerName |-> NoName, uri |-> "b.ts", line |-> 0],
       [name |-> addCall, containerName |-> NoName, uri |-> "c.ts", line |-> 2] >>

Pick(ids) == [i \in 1..Len(ids) |-> Workspace[ids[i]]]

\* What vscode.executeWorkspaceSymbolProvider may answer: nothing, or a list
\* of indexed symbols.
HostAnswers ==
    {NoResult} \cup {Result(Pick(ids)) :
        ids \in {<<>>, <<1>>, <<3>>, <<1, 2>>, <<3, 2>>, <<1, 2, 3, 4>>}}

\* The outline vscode.executeDocumentSymbolProvider gives for a file.
NoNode == [name |-> NoName, line |-> NoLine, children |-> <<>>]
Leaf(name, line) == [name |-> name, line |-> line, children |-> <<>>]
Outline(uri) ==
    IF uri = "a.ts" THEN <<Leaf(add, 0)>>
    ELSE IF uri = "b.ts"
         THEN << [name |-> Calc, line |-> 0, children |-> <<Leaf(add, 1)>>] >>
    ELSE IF uri = "c.ts" THEN <<Leaf(addCall, 2)>>
    ELSE <<>>

Symbols == {add, CalcAdd, sub}
UriFilters == {NoUri, "b.ts"}

\* ---- string helpers
IndexOfDot(s) ==
    IF \E i \in 1..Len(s) : s[i] = "."
    THEN CHOOSE i \in 1..Len(s) : s[i] = "." /\ \A j \in 1..(i - 1) : s[j] # "."
    ELSE 0

includesDot(s) == IndexOfDot(s) # 0

RECURSIVE split(_)
split(s) ==
    LET i == IndexOfDot(s)
    IN  IF i = 0 THEN <<s>>
        ELSE <<SubSeq(s, 1, i - 1)>> \o split(SubSeq(s, i + 1, Len(s)))

pop(parts) == parts[Len(parts)]

startsWith(s, p) == Len(p) <= Len(s) /\ SubSeq(s, 1, Len(p)) = p

includes(s, p) ==
    \E i \in 1..(Len(s) - Len(p) + 1) : SubSeq(s, i, i + Len(p) - 1) = p

LowerChar(ch) ==
    IF ch = "C" THEN "c"
    ELSE IF ch = "E" THEN "e"
    ELSE IF ch = "M" THEN "m"
    ELSE ch
toLowerCase(s) == [i \in 1..Len(s) |-> LowerChar(s[i])]

\* name.replace(/\(\)$/, '')
StripCall(s) ==
    IF Len(s) >= 2 /\ s[Len(s) - 1] = "(" /\ s[Len(s)] = ")"
    THEN SubSeq(s, 1, Len(s) - 2)
    ELSE s

slice5(s) == SubSeq(s, 1, Min(Len(s), 5))

\* ---- results
NoTarget == [uri |-> NoUri, line |-> NoLine]
NoSuggestions == [defined |-> FALSE, names |-> <<>>]
BaseResult ==
    [status |-> "", multipleMatches |-> FALSE, multipleDefinitions |-> FALSE,
     matches |-> <<>>, target |-> NoTarget, suggestions |-> NoSuggestions,
     bps |-> <<>>]

Candidate(s) ==
    [name |-> s.name, containerName |-> s.containerName, uri |-> s.uri,
     line |-> s.line]

NoCall ==
    [tool |-> "", action |-> "", symbol |-> NoName, uri |-> NoUri,
     answer |-> NoResult, all |-> NoResult, candidates |-> <<>>,
     bpsBefore |-> <<>>, editedBefore |-> {}, result |-> BaseResult]

\* ---- outline search
RECURSIVE findSymbolByName(_, _)
findSymbolByName(symbols, name) ==
    IF symbols = <<>> THEN NoNode
    ELSE LET s == Head(symbols)
         IN  IF s.name = name THEN s
             ELSE LET found == findSymbolByName(s.children, name)
                  IN  IF found # NoNode THEN found
                      ELSE findSymbolByName(Tail(symbols), name)

\* The member candidates of a list of container candidates: a container
\* contributes the member found under it in its file's outline, or nothing.
\* MemberCandidates that keeps the container's own place for a match.
RECURSIVE MemberCandidates_AtContainer(_, _, _)
MemberCandidates_AtContainer(syms, primary, member) ==
    IF syms = <<>> THEN <<>>
    ELSE LET sym == Head(syms)
             container == findSymbolByName(Outline(sym.uri), primary)
             found == IF container = NoNode THEN NoNode
                      ELSE findSymbolByName(container.children, member)
             rest == MemberCandidates_AtContainer(Tail(syms), primary, member)
         IN  IF found = NoNode THEN rest
             ELSE <<[name |-> found.name, containerName |-> primary,
                     uri |-> sym.uri, line |-> container.line]>> \o rest

RECURSIVE MemberCandidates(_, _, _)
MemberCandidates(syms, primary, member) ==
    IF syms = <<>> THEN <<>>
    ELSE LET sym == Head(syms)
             container == findSymbolByName(Outline(sym.uri), primary)
             found == IF container = NoNode THEN NoNode
                      ELSE findSymbolByName(container.children, member)
             rest == MemberCandidates(Tail(syms), primary, member)
         IN  IF found = NoNode THEN rest
             ELSE <<[name |-> found.name, containerName |-> primary,
                     uri |-> sym.uri, line |-> found.line]>> \o rest

\* ExactOrAll comparing the names as the host gives them.
ExactOrAll_NoStrip(syms, primary) ==
    LET IsExact(s) == s.name = primary
        exactMatches == SelectSeq(syms, IsExact)
    IN  IF Len(exactMatches) > 0 THEN exactMatches ELSE syms

ExactOrAll(syms, primary) ==
    LET IsExact(s) == StripCall(s.name) = primary
        exactMatches == SelectSeq(syms, IsExact)
    IN  IF Len(exactMatches) > 0 THEN exactMatches ELSE syms

\* findSymbolInWorkspace(symbol): the resolver of the debug tool.
findSymbolInWorkspace(symbol, answer) ==
    LET i == IndexOfDot(symbol)
        primary == IF i = 0 THEN symbol ELSE SubSeq(symbol, 1, i - 1)
        member == IF i = 0 THEN NoName ELSE SubSeq(symbol, i + 1, Len(symbol))
        used == ExactOrAll(answer.syms, primary)
    IN  IF i = 0 THEN [k \in 1..Len(used) |-> Candidate(used[k])]
        ELSE MemberCandidates(used, primary, member)

\* ---- debug tool: breakpoints
\* The arguments that locate a breakpoint: a symbol, a file with a line, or
\* neither.
calc == <<"c", "a", "l", "c">>
DebugSymbols == Symbols \cup {calc}

\* What the host may answer to the query for every symbol, ''.
AllSymbolsAnswers == {NoResult, Result(Workspace), Result(Workspace \o Workspace)}

LocationArgs ==
    {[symbol |-> q, file |-> NoUri, line |-> NoLine] : q \in DebugSymbols}
    \cup {[symbol |-> NoName, file |-> "a.ts", line |-> 7],
          [symbol |-> NoName, file |-> NoUri, line |-> NoLine]}

\* What vscode.workspace.findFiles answers for the file argument.
FoundFiles == {<<>>, <<"a.ts">>}

\* Suggestions without the slice.
Suggestions_Unsliced(all, symbol) ==
    LET Hit(s) == includes(toLowerCase(s.name), toLowerCase(symbol))
        hits == SelectSeq(all.syms, Hit)
    IN  IF IsNull(all) THEN NoSuggestions
        ELSE [defined |-> TRUE, names |-> [k \in 1..Len(hits) |-> hits[k].name]]

\* allSymbols?.filter(name includes symbol, case-insensitive).slice(0, 5)
Suggestions(all, symbol) ==
    LET Hit(s) == includes(toLowerCase(s.name), toLowerCase(symbol))
        hits == slice5(SelectSeq(all.syms, Hit))
    IN  IF IsNull(all) THEN NoSuggestions
        ELSE [defined |-> TRUE, names |-> [k \in 1..Len(hits) |-> hits[k].name]]

\* The first breakpoint at the target, 0 for none.
ExistingBp(bps, target) ==
    IF \E i \in 1..Len(bps) : bps[i] = target
    THEN CHOOSE i \in 1..Len(bps) :
             bps[i] = target /\ \A j \in 1..(i - 1) : bps[j] # target
    ELSE 0

RemoveAt(s, i) == SubSeq(s, 1, i - 1) \o SubSeq(s, i + 1, Len(s))

\* ToggleOrCreate that reports 'removed' without removing the breakpoint.
ToggleOrCreate_KeepsOnRemove(action, bps, target) ==
    LET i == ExistingBp(bps, target)
    IN  IF action = "toggleBreakpoint" /\ i # 0
        THEN [bps |-> bps,
              result |-> [BaseResult EXCEPT !.status = "removed", !.target = target]]
        ELSE [bps |-> Append(bps, target),
              result |-> [BaseResult EXCEPT
                            !.status = IF action = "toggleBreakpoint"
                                       THEN "added" ELSE "set",
                            !.target = target]]

\* Toggle or create at the target.
ToggleOrCreate(action, bps, target) ==
    LET i == ExistingBp(bps, target)
    IN  IF action = "toggleBreakpoint" /\ i # 0
        THEN [bps |-> RemoveAt(bps, i),
              result |-> [BaseResult EXCEPT !.status = "removed", !.target = target]]
        ELSE [bps |-> Append(bps, target),
              result |-> [BaseResult EXCEPT
                            !.status = IF action = "toggleBreakpoint"
                                       THEN "added" ELSE "set",
                            !.target = target]]

\* With several matches, setBreakpoint returns them; toggleBreakpoint goes on
\* with the first.
ActsOnFirstMatch(action) == action # "setBreakpoint"

\* case 'setBreakpoint' / 'toggleBreakpoint'
debugBreakpoint(action, args, bps, answer, all, files) ==
    LET symbols == findSymbolInWorkspace(args.symbol, answer)
        keep(result) == [bps |-> bps, result |-> result]
    IN  IF args.symbol # NoName
        THEN IF Len(symbols) = 0
             THEN keep([BaseResult EXCEPT !.status = "not_found",
                          !.suggestions = Suggestions(all, args.symbol)])
             ELSE IF Len(symbols) > 1 /\ ~ActsOnFirstMatch(action)
             THEN keep([BaseResult EXCEPT !.status = "multipleMatches",
                          !.multipleMatches = TRUE, !.matches = symbols])
             ELSE ToggleOrCreate(action, bps,
                      [uri |-> symbols[1].uri, line |-> symbols[1].line])
        ELSE IF args.file # NoUri /\ args.line # NoLine
        THEN IF Len(files) = 0
             THEN keep([BaseResult EXCEPT !.status = "file_not_found"])
             ELSE ToggleOrCreate(action, bps,
                      [uri |-> files[1], line |-> args.line])
        ELSE keep([BaseResult EXCEPT !.status = "missing_location"])

\* ---- extract method
ExtractOutcomes ==
    {"throws", "noPattern", "noActions", "noTitleMatch", "editOk",
     "editFails", "command", "neither"}

\* refactor_extractMethod handler: the files whose edit was applied and the
\* result. host: what the host does once a single function is selected.
\* FilterByUri that keeps every symbol.
FilterByUri_KeepsAll(syms, providedUri) == syms

\* Filter by URI if provided
FilterByUri(syms, providedUri) ==
    LET InUri(s) == s.uri = providedUri
    IN  IF providedUri # NoUri THEN SelectSeq(syms, InUri) ELSE syms

extractMethod(providedUri, searchResult, host) ==
    LET matches == FilterByUri(searchResult.syms, providedUri)
        none(status) == [applied |-> {}, saved |-> {},
                         result |-> [BaseResult EXCEPT !.status = status]]
        shown == slice5(matches)
    IN  IF IsEmpty(searchResult) THEN none("not_found")
        ELSE IF Len(matches) > 1
        THEN [applied |-> {}, saved |-> {},
              result |-> [BaseResult EXCEPT !.status = "multipleMatches",
                            !.multipleMatches = TRUE,
                            !.matches = [k \in 1..Len(shown) |-> Candidate(shown[k])]]]
        ELSE IF Len(matches) = 0 \/ host = "throws" THEN none("error")
        ELSE IF host = "noPattern" THEN none("pattern_not_found")
        ELSE IF host = "noActions" THEN none("no_actions")
        ELSE IF host = "noTitleMatch" THEN none("not_available")
        ELSE IF host = "editFails" THEN none("apply_failed")
        ELSE IF host = "neither" THEN none("no_edit_or_command")
        ELSE [applied |-> {matches[1].uri}, saved |-> {matches[1].uri},
              result |-> [BaseResult EXCEPT !.status = "success",
                            !.target = [uri |-> matches[1].uri,
                                        line |-> matches[1].line]]]

\* ---- call hierarchy
\* Which symbols vscode.prepareCallHierarchy has an item for.
HierarchyChoices ==
    {{Workspace[n] : n \in 1..Len(Workspace)}, {Workspace[1]}, {}}

callHierarchy(symbol, uri, answer, hier) ==
    LET searchQuery == IF includesDot(symbol) THEN pop(split(symbol)) ELSE symbol
        Matches(s) ==
            /\ \/ s.name = searchQuery
               \/ startsWith(s.name, searchQuery \o <<"(">>)
               \/ includesDot(symbol) /\ s.containerName = split(symbol)[1]
            /\ uri = NoUri \/ s.uri = uri
        matchingSymbols == SelectSeq(answer.syms, Matches)
        HasItem(s) == s \in hier
        withItems == SelectSeq(matchingSymbols, HasItem)
        results == [k \in 1..Len(withItems) |->
                      [Candidate(withItems[k]) EXCEPT !.line = @ + 1]]
        shown == slice5(answer.syms)
    IN  IF IsEmpty(answer) THEN [BaseResult EXCEPT !.status = "not_found"]
        ELSE IF Len(matchingSymbols) = 0
        THEN [BaseResult EXCEPT !.status = "no_exact_match",
                !.suggestions = [defined |-> TRUE,
                                 names |-> [k \in 1..Len(shown) |-> shown[k].name]]]
        ELSE IF Len(results) = 0
        THEN [BaseResult EXCEPT !.status = "no_call_hierarchy"]
        ELSE IF Len(results) = 1
        THEN [BaseResult EXCEPT !.status = "single", !.matches = results,
                !.target = [uri |-> results[1].uri, line |-> results[1].line]]
        ELSE [BaseResult EXCEPT !.status = "multipleMatches",
                !.multipleMatches = TRUE, !.matches = results]

\* ---- definition by symbol
findDefinitionBySymbol(symbolName, answer) ==
    LET parts == split(symbolName)
        primarySymbol == parts[1]
        hasMember == Len(parts) >= 2 /\ parts[2] # NoName
        matchesToUse == ExactOrAll(answer.syms, primarySymbol)
        allDefinitions ==
            IF hasMember
            THEN MemberCandidates(matchesToUse, primarySymbol, parts[2])
            ELSE [k \in 1..Len(matchesToUse) |-> Candidate(matchesToUse[k])]
    IN  IF IsEmpty(answer) THEN [BaseResult EXCEPT !.status = "not_found"]
        ELSE IF Len(allDefinitions) = 0
        THEN [BaseResult EXCEPT !.status = "no_definition"]
        ELSE IF Len(allDefinitions) = 1
        THEN [BaseResult EXCEPT !.status = "single", !.matches = allDefinitions,
                !.target = [uri |-> allDefinitions[1].uri,
                            line |-> allDefinitions[1].line]]
        ELSE [BaseResult EXCEPT !.status = "multipleDefinitions",
                !.multipleDefinitions = TRUE, !.matches = allDefinitions]

\* ---- actions
Called(tool, action, symbol, uri, answer, candidates, result) ==
    [tool |-> tool, action |-> action, symbol |-> symbol, uri |-> uri,
     answer |-> answer, all |-> NoResult, candidates |-> candidates,
     bpsBefore |-> breakpoints, editedBefore |-> edited, result |-> result]

\* The host is asked only what the handler's path asks it: the symbol index
\* for a symbol, every symbol when nothing resolved, the files for a file.
DebugBreakpoint(action) ==
    \E args \in LocationArgs :
    \E answer \in IF args.symbol # NoName THEN HostAnswers ELSE {NoResult} :
    \E all \in IF args.symbol # NoName
                  /\ Len(findSymbolInWorkspace(args.symbol, answer)) = 0
               THEN AllSymbolsAnswers ELSE {NoResult} :
    \E files \in IF args.symbol = NoName /\ args.file # NoUri
                 THEN FoundFiles ELSE {<<>>} :
        LET out == debugBreakpoint(action, args, breakpoints, answer, all, files)
        IN  /\ Len(out.bps) <= MaxBps
            /\ breakpoints' = out.bps
            /\ lastCall' = [Called("debug", action, args.symbol, NoUri, answer,
                                     IF args.symbol # NoName
                                     THEN findSymbolInWorkspace(args.symbol, answer)
                                     ELSE <<>>,
                                     out.result)
                               EXCEPT !.all = all]
            /\ UNCHANGED <<edited, saved>>

DebugSetBreakpoint == DebugBreakpoint("setBreakpoint")

DebugToggleBreakpoint == DebugBreakpoint("toggleBreakpoint")

\* clearBreakpoints that removes nothing.
DebugClearBreakpoints_RemovesNothing ==
    /\ lastCall' = Called("debug", "clearBreakpoints", NoName, NoUri, NoResult, <<>>,
                          [BaseResult EXCEPT !.status = "cleared"])
    /\ UNCHANGED <<breakpoints, edited, saved>>

\* case 'clearBreakpoints'
DebugClearBreakpoints ==
    /\ breakpoints' = <<>>
    /\ lastCall' = Called("debug", "clearBreakpoints", NoName, NoUri, NoResult, <<>>,
                      [BaseResult EXCEPT !.status = "cleared"])
    /\ UNCHANGED <<edited, saved>>

\* case 'listBreakpoints'
DebugListBreakpoints ==
    /\ lastCall' = Called("debug", "listBreakpoints", NoName, NoUri, NoResult, <<>>,
                      [BaseResult EXCEPT !.status = "list", !.bps = breakpoints])
    /\ UNCHANGED <<breakpoints, edited, saved>>

\* The host's part after the selection is asked for only when one function
\* was selected.
ExtractMethod ==
    \E containingFunction \in Symbols, providedUri \in UriFilters,
       searchResult \in HostAnswers :
    \E host \in IF extractMethod(providedUri, searchResult, "throws").result.status
                    = "error"
                THEN ExtractOutcomes ELSE {"throws"} :
        LET out == extractMethod(providedUri, searchResult, host)
            InUri(s) == providedUri = NoUri \/ s.uri = providedUri
            matches == SelectSeq(searchResult.syms, InUri)
        IN  /\ edited' = edited \cup out.applied
            /\ saved' = saved \cup out.saved
            /\ lastCall' = Called("refactor_extractMethod", "", containingFunction,
                              providedUri, searchResult,
                              [k \in 1..Len(matches) |-> Candidate(matches[k])],
                              out.result)
            /\ UNCHANGED breakpoints

CallHierarchy ==
    \E symbol \in Symbols, uri \in UriFilters, answer \in HostAnswers :
    \E hier \in IF IsEmpty(answer) THEN {{}} ELSE HierarchyChoices :
        LET result == callHierarchy(symbol, uri, answer, hier)
        IN  /\ lastCall' = Called("callHierarchy", "", symbol, uri, answer,
                              result.matches, result)
            /\ UNCHANGED <<breakpoints, edited, saved>>

Definition ==
    \E symbol \in Symbols, answer \in HostAnswers :
        LET result == findDefinitionBySymbol(symbol, answer)
        IN  /\ lastCall' = Called("definition", "", symbol, NoUri, answer,
                              result.matches, result)
            /\ UNCHANGED <<breakpoints, edited, saved>>

InitToolVars ==
    /\ breakpoints = <<>>
    /\ edited = {}
    /\ saved = {}
    /\ lastCall = NoCall

NextTools ==
    \/ DebugSetBreakpoint /\ UNCHANGED nonToolVars
    \/ DebugToggleBreakpoint /\ UNCHANGED nonToolVars
    \/ DebugClearBreakpoints /\ UNCHANGED nonToolVars
    \/ DebugListBreakpoints /\ UNCHANGED nonToolVars
    \/ ExtractMethod /\ UNCHANGED nonToolVars
    \/ CallHierarchy /\ UNCHANGED nonToolVars
    \/ Definition /\ UNCHANGED nonToolVars

\* ------------------------------------------------------------ C9, C10
SingleTargetCall ==
    \/ lastCall.tool = "debug" /\ lastCall.action \in {"setBreakpoint", "toggleBreakpoint"}
    \/ lastCall.tool = "refactor_extractMethod"

\* C9: when resolution gave more than one candidate, setBreakpoint,
\* toggleBreakpoint and extract method leave the breakpoints and the files
\* as they were and return the disambiguation payload.
C9_NoActionOnAmbiguity ==
    (SingleTargetCall /\ Len(lastCall.candidates) > 1) =>
        /\ breakpoints = lastCall.bpsBefore
        /\ edited = lastCall.editedBefore
        /\ lastCall.result.multipleMatches
        /\ Len(lastCall.result.matches) > 1

\* The files holding a symbol whose name is the query.
MatchedFiles(symbol, answer) ==
    {answer.syms[k].uri : k \in {n \in 1..Len(answer.syms) :
                                   StripCall(answer.syms[n].name) = symbol}}

\* C10: a query whose name matches symbols in two or more files, with no uri
\* filter, gets at least two candidates and multipleMatches: true from the
\* tool.
C10_AmbiguityReported ==
    (/\ lastCall.tool \in {"debug", "refactor_extractMethod", "callHierarchy",
                       "definition"}
     /\ lastCall.uri = NoUri
     /\ Cardinality(MatchedFiles(lastCall.symbol, lastCall.answer)) >= 2) =>
        /\ lastCall.result.multipleMatches
        /\ Len(lastCall.result.matches) >= 2

\* ------------------------------------------- references and definitions
\* A span: a file and a range (start line/character, end line/character).
Span(uri, sl, sc, el, ec) == [uri |-> uri, sl |-> sl, sc |-> sc, el |-> el, ec |-> ec]

\* An entry without uri or range.
NoSpan == Span(NoUri, NoLine, NoLine, NoLine, NoLine)

\* The range the host gives the symbol that starts at a line of a file.
SpanAt(uri, line) == Span(uri, line, line + 4, line + 2, 9)

DeclA == SpanAt("a.ts", 0)
DeclB == SpanAt("b.ts", 1)
UseApp == Span("app.ts", 3, 10, 3, 13)

\* The two shapes of a host location: Location {uri, range} and
\* LocationLink {targetUri, targetRange}.
Location(span) == [shape |-> "Location", span |-> span]
LocationLink(span) == [shape |-> "LocationLink", span |-> span]

NoLocations == [defined |-> FALSE, locs |-> <<>>]
Locations(locs) == [defined |-> TRUE, locs |-> locs]

\* What vscode.executeReferenceProvider may answer for a position.
RefAnswers ==
    {NoLocations, Locations(<<>>),
     Locations(<<Location(DeclA), Location(UseApp)>>),
     Locations(<<Location(UseApp), Location(NoSpan), Location(DeclB),
                 Location(UseApp)>>)}

\* What vscode.executeDefinitionProvider may answer for a position.
DefAnswers ==
    {NoLocations, Locations(<<>>),
     Locations(<<Location(DeclA), Location(DeclB)>>),
     Locations(<<LocationLink(DeclA), LocationLink(DeclB)>>)}

\* The host's answers during one call: references for a position in a.ts
\* and elsewhere, definitions, and the files whose provider calls throw.
HostLookups ==
    [refsA : RefAnswers, refsB : RefAnswers, defs : DefAnswers,
     throwsIn : {{}, {"a.ts"}}]

NoHost == [refsA |-> NoLocations, refsB |-> NoLocations, defs |-> NoLocations,
           throwsIn |-> {}]

RefsAt(h, uri) == IF uri = "a.ts" THEN h.refsA ELSE h.refsB

\* !x || !x.uri || !x.range
LacksUriOrRange(loc) == loc.shape # "Location" \/ loc.span = NoSpan

\* The declaration filter of the references tool.
FilterDeclaration(references, definitions, includeDeclaration) ==
    LET IsDef(ref) ==
            LET Same(def) == ~LacksUriOrRange(def) /\ def.span = ref.span
            IN  \E k \in 1..Len(definitions.locs) : Same(definitions.locs[k])
        Keep(ref) == LacksUriOrRange(ref) \/ ~IsDef(ref)
    IN  IF includeDeclaration \/ ~definitions.defined \/ Len(definitions.locs) = 0
        THEN references
        ELSE SelectSeq(references, Keep)

\* vscode.workspace.asRelativePath(uri)
asRelativePath(uri) == [relative |-> uri]

Formats == {"compact", "detailed"}

RangeObject(span) ==
    [start |-> [line |-> span.sl, character |-> span.sc],
     end |-> [line |-> span.el, character |-> span.ec]]

\* One reference of findReferencesByPosition.
PositionReference(format, span) ==
    IF format = "compact"
    THEN [compact |-> <<span.uri, span.sl, span.sc, span.el, span.ec>>]
    ELSE [uri |-> span.uri, range |-> RangeObject(span)]

\* SymbolReference whose compact tuple has two positions exchanged.
SymbolReference_Swapped(format, span) ==
    IF format = "compact"
    THEN [compact |-> <<asRelativePath(span.uri), span.sl, span.el, span.sc, span.ec>>]
    ELSE [uri |-> span.uri, file |-> asRelativePath(span.uri), line |-> span.sl,
          range |-> RangeObject(span)]

\* One reference of findReferencesBySymbol.
SymbolReference(format, span) ==
    IF format = "compact"
    THEN [compact |-> <<asRelativePath(span.uri), span.sl, span.sc, span.el, span.ec>>]
    ELSE [uri |-> span.uri, file |-> asRelativePath(span.uri), line |-> span.sl,
          range |-> RangeObject(span)]

LookupResult ==
    [status |-> "", references |-> <<>>, definitions |-> <<>>, used |-> <<>>,
     targets |-> <<>>]

\* findReferencesByPosition
findReferencesByPosition(includeDeclaration, format, h) ==
    LET references == RefsAt(h, "a.ts")
        filteredRefs == FilterDeclaration(references.locs, h.defs, includeDeclaration)
        WellFormed(ref) == ~LacksUriOrRange(ref)
        out == SelectSeq(filteredRefs, WellFormed)
    IN  IF ~references.defined \/ Len(references.locs) = 0
        THEN [LookupResult EXCEPT !.status = "references"]
        ELSE [LookupResult EXCEPT !.status = "references",
                !.references = [k \in 1..Len(out) |->
                                  PositionReference(format, out[k].span)]]

\* The pushes of one candidate's references: duplicates of a location
\* already pushed (same file and start) are left out.
RECURSIVE AddReferences(_, _, _)
AddReferences(acc, refs, format) ==
    IF refs = <<>> THEN acc
    ELSE LET ref == Head(refs)
             locationKey == <<ref.span.uri, ref.span.sl, ref.span.sc>>
         IN  IF LacksUriOrRange(ref) \/ locationKey \in acc.processedLocations
             THEN AddReferences(acc, Tail(refs), format)
             ELSE AddReferences(
                      [allReferences |->
                           Append(acc.allReferences, SymbolReference(format, ref.span)),
                       processedLocations |->
                           acc.processedLocations \cup {locationKey}],
                      Tail(refs), format)

\* The loop over the targets: a target whose provider calls throw is
\* skipped.
RECURSIVE CollectReferences(_, _, _, _, _)
CollectReferences(acc, targets, includeDeclaration, format, h) ==
    IF targets = <<>> THEN acc
    ELSE LET t == Head(targets)
             references == RefsAt(h, t.uri)
             filteredRefs == FilterDeclaration(references.locs, h.defs,
                                               includeDeclaration)
             next == IF t.uri \in h.throwsIn \/ ~references.defined THEN acc
                     ELSE AddReferences(acc, filteredRefs, format)
         IN  CollectReferences(next, Tail(targets), includeDeclaration, format, h)

\* findReferencesBySymbol
findReferencesBySymbol(symbolName, includeDeclaration, format, answer, h) ==
    LET parts == split(symbolName)
        primarySymbol == parts[1]
        hasMember == Len(parts) >= 2 /\ parts[2] # NoName
        matchesToUse == ExactOrAll(answer.syms, primarySymbol)
        NoThrow(s) == s.uri \notin h.throwsIn
        found == IF hasMember
                 THEN MemberCandidates(SelectSeq(matchesToUse, NoThrow),
                                       primarySymbol, parts[2])
                 ELSE [k \in 1..Len(matchesToUse) |-> Candidate(matchesToUse[k])]
        targets == [k \in 1..Len(found) |->
                      [uri |-> found[k].uri, line |-> found[k].line,
                       character |-> SpanAt(found[k].uri, found[k].line).sc]]
        acc == CollectReferences([allReferences |-> <<>>, processedLocations |-> {}],
                                 targets, includeDeclaration, format, h)
    IN  IF IsEmpty(answer)
        THEN [LookupResult EXCEPT !.status = "not_found"]
        ELSE [LookupResult EXCEPT !.status = "references",
                !.references = acc.allReferences,
                !.used = matchesToUse, !.targets = targets]

\* One definition of findDefinitionBySymbol, at the candidate's range.
SymbolDefinition(format, c) ==
    LET span == SpanAt(c.uri, c.line)
    IN  IF format = "compact"
        THEN [symbol |-> <<c.name, c.uri, span.sl>>, uri |-> c.uri,
              compact |-> <<span.sl, span.sc, span.el, span.ec>>]
        ELSE [symbol |-> [name |-> c.name, container |-> c.containerName,
                          file |-> c.uri, line |-> span.sl],
              uri |-> c.uri, range |-> RangeObject(span)]

\* findDefinitionBySymbol with its output format.
formatDefinitions(symbolName, format, answer) ==
    LET found == findDefinitionBySymbol(symbolName, answer).matches
    IN  [LookupResult EXCEPT
           !.status = findDefinitionBySymbol(symbolName, answer).status,
           !.definitions = [k \in 1..Len(found) |-> SymbolDefinition(format, found[k])],
           !.used = IF IsEmpty(answer) THEN <<>>
                    ELSE ExactOrAll(answer.syms, split(symbolName)[1]),
           !.targets = [k \in 1..Len(found) |->
                          [uri |-> found[k].uri, line |-> found[k].line,
                           character |-> SpanAt(found[k].uri, found[k].line).sc]]]

\* ---- lookup actions
CalcAddX == <<"C", "a", "l", "c", ".", "a", "d", "d", ".", "x">>
LookupSymbols == Symbols \cup {CalcAddX}

NoLookup ==
    [tool |-> "", symbol |-> NoName, includeDeclaration |-> TRUE, format |-> "",
     answer |-> NoResult, host |-> NoHost, result |-> LookupResult]

Looked(tool, symbol, includeDeclaration, format, answer, h, result) ==
    [tool |-> tool, symbol |-> symbol, includeDeclaration |-> includeDeclaration,
     format |-> format, answer |-> answer, host |-> h, result |-> result]

\* references with a symbol
ReferencesBySymbol ==
    /\ lookup = NoLookup
    /\ \E symbol \in LookupSymbols, includeDeclaration \in BOOLEAN,
          format \in Formats, answer \in HostAnswers, h \in HostLookups :
           lookup' = Looked("references", symbol, includeDeclaration, format, answer, h,
                            findReferencesBySymbol(symbol, includeDeclaration, format,
                                                   answer, h))

\* references with uri, line and character
ReferencesByPosition ==
    /\ lookup = NoLookup
    /\ \E includeDeclaration \in BOOLEAN, format \in Formats, h \in HostLookups :
           /\ h.throwsIn = {}
           /\ lookup' = Looked("referencesByPosition", NoName, includeDeclaration,
                               format, NoResult, h,
                               findReferencesByPosition(includeDeclaration, format, h))

\* references with neither
ReferencesMissingArgs ==
    /\ lookup = NoLookup
    /\ lookup' = Looked("references", NoName, TRUE, "compact", NoResult, NoHost,
                        [LookupResult EXCEPT !.status = "error"])

\* definition with a symbol
DefinitionBySymbol ==
    /\ lookup = NoLookup
    /\ \E symbol \in LookupSymbols, format \in Formats, answer \in HostAnswers :
           lookup' = Looked("definition", symbol, TRUE, format, answer, NoHost,
                            formatDefinitions(symbol, format, answer))

\* callHierarchy when the host's calls for the files of throwsIn throw: the
\* loop over the matching symbols has no try, so the first throw leaves the
\* handler. used: the symbols looped over; targets: those in the result.
callHierarchyLoop(symbol, uri, answer, throwsIn) ==
    LET hier == {Workspace[n] : n \in 1..Len(Workspace)}
        normal == callHierarchy(symbol, uri, answer, hier)
        threw == \E k \in 1..Len(normal.matches) : normal.matches[k].uri \in throwsIn
    IN  IF threw
        THEN [LookupResult EXCEPT !.status = "threw", !.used = normal.matches]
        ELSE [LookupResult EXCEPT !.status = normal.status,
                !.used = normal.matches, !.targets = normal.matches]

\* callHierarchy with a symbol
CallHierarchyBySymbol ==
    /\ lookup = NoLookup
    /\ \E symbol \in LookupSymbols, uri \in UriFilters, answer \in HostAnswers,
          throwsIn \in {{}, {"a.ts"}} :
           lookup' = Looked("callHierarchy", symbol, TRUE, "", answer,
                            [NoHost EXCEPT !.throwsIn = throwsIn],
                            callHierarchyLoop(symbol, uri, answer, throwsIn))

\* The result is handed to the caller.
LookupReturns ==
    /\ lookup # NoLookup
    /\ lookup' = NoLookup

InitLookupVars == lookup = NoLookup

NextLookup ==
    \/ ReferencesBySymbol /\ UNCHANGED nonLookupVars
    \/ ReferencesByPosition /\ UNCHANGED nonLookupVars
    \/ ReferencesMissingArgs /\ UNCHANGED nonLookupVars
    \/ DefinitionBySymbol /\ UNCHANGED nonLookupVars
    \/ CallHierarchyBySymbol /\ UNCHANGED nonLookupVars
    \/ LookupReturns /\ UNCHANGED nonLookupVars

\* ------------------------------------------------------------ C11 .. C18
BySymbol == lookup.tool \in {"references", "definition"} /\ lookup.symbol # NoName

\* The text before the first dot of the query.
PrimaryOf(symbol) ==
    IF \E i \in 1..Len(symbol) : symbol[i] = "."
    THEN SubSeq(symbol, 1,
                (CHOOSE i \in 1..Len(symbol) :
                     symbol[i] = "." /\ \A j \in 1..(i - 1) : symbol[j] # ".") - 1)
    ELSE symbol

\* C11: the candidates used after the workspace symbol query are exactly the
\* returned symbols whose name, with a trailing "()" taken off, is the
\* primary name; when there is none, all returned symbols are used.
C11_ExactMatchesElseAll ==
    (BySymbol /\ ~IsEmpty(lookup.answer)) =>
        LET syms == lookup.answer.syms
            used == lookup.result.used
            exact == {k \in 1..Len(syms) : StripCall(syms[k].name) = PrimaryOf(lookup.symbol)}
        IN  /\ exact = {} => used = syms
            /\ exact # {} =>
                  /\ Len(used) = Cardinality(exact)
                  /\ {used[j] : j \in 1..Len(used)} = {syms[k] : k \in exact}
            /\ ~includesDot(lookup.symbol) =>
                  /\ Len(lookup.result.targets) = Len(used)
                  /\ \A j \in 1..Len(used) :
                        /\ lookup.result.targets[j].uri = used[j].uri
                        /\ lookup.result.targets[j].line = used[j].line

\* Four symbols came back for "add": the two named add and the one named
\* add() are used, the class is not.
C11_Witness ==
    /\ BySymbol /\ lookup.symbol = add
    /\ Len(lookup.answer.syms) = 4
    /\ Len(lookup.result.used) = 3
    /\ lookup.result.used[3].name = addCall

\* The span a definition entry describes, in either format.
DefinitionSpan(d) ==
    IF "compact" \in DOMAIN d
    THEN Span(d.uri, d.compact[1], d.compact[2], d.compact[3], d.compact[4])
    ELSE Span(d.uri, d.range.start.line, d.range.start.character,
              d.range.end.line, d.range.end.character)

\* The text after the first dot of the query.
MemberOf(symbol) == SubSeq(symbol, Len(PrimaryOf(symbol)) + 2, Len(symbol))

\* The lines at which a file's outline has a child named member under a
\* top-level container named primary.
MemberLines(uri, primary, member) ==
    {Outline(uri)[i].children[j].line :
        <<i, j>> \in {p \in (1..Len(Outline(uri))) \X (1..2) :
                        /\ Outline(uri)[p[1]].name = primary
                        /\ p[2] <= Len(Outline(uri)[p[1]].children)
                        /\ Outline(uri)[p[1]].children[p[2]].name = member}}

ContainerLines(uri, primary) ==
    {Outline(uri)[i].line : i \in {k \in 1..Len(Outline(uri)) :
                                     Outline(uri)[k].name = primary}}

\* C12: for a query Container.Member every position looked up and every
\* definition returned is at the member's range, never at the container's,
\* and a candidate whose file has no such member contributes nothing.
C12_MemberRangeOnly ==
    (BySymbol /\ lookup.symbol = CalcAdd) =>
        LET primary == PrimaryOf(lookup.symbol)
            member == MemberOf(lookup.symbol)
            used == lookup.result.used
            targets == lookup.result.targets
            contributing == {j \in 1..Len(used) :
                               /\ used[j].uri \notin lookup.host.throwsIn
                               /\ MemberLines(used[j].uri, primary, member) # {}}
        IN  /\ \A k \in 1..Len(targets) :
                  /\ targets[k].line \in MemberLines(targets[k].uri, primary, member)
                  /\ targets[k].line \notin ContainerLines(targets[k].uri, primary)
            /\ Len(targets) = Cardinality(contributing)
            /\ lookup.tool = "definition" =>
                  /\ Len(lookup.result.definitions) = Len(targets)
                  /\ \A k \in 1..Len(targets) :
                        DefinitionSpan(lookup.result.definitions[k])
                            = SpanAt(targets[k].uri, targets[k].line)

\* Calc.add with the two add symbols as candidates: the one in a.ts has no
\* container Calc and contributes nothing, the one in b.ts gives the method
\* at line 1, not the class at line 0.
C12_Witness ==
    /\ lookup.tool = "definition" /\ lookup.symbol = CalcAdd
    /\ Len(lookup.result.used) = 2
    /\ Len(lookup.result.definitions) = 1
    /\ DefinitionSpan(lookup.result.definitions[1]) = DeclB

\* name contains q, letters compared without case.
ContainsCI(name, q) ==
    \E i \in 0..(Len(name) - Len(q)) :
        \A j \in 1..Len(q) :
            \/ name[i + j] = q[j]
            \/ {name[i + j], q[j]} = {"C", "c"}

C14_UriFilterRestricts ==
    lastCall.uri # NoUri =>
        /\ \A k \in 1..Len(lastCall.result.matches) :
              lastCall.result.matches[k].uri = lastCall.uri
        /\ lastCall.result.target # NoTarget => lastCall.result.target.uri = lastCall.uri
        /\ (edited \ lastCall.editedBefore) \subseteq {lastCall.uri}

\* Extract method in "add" with the filter b.ts, where the host lists add in
\* a.ts and in b.ts: the edit is applied in b.ts.
C14_Witness ==
    /\ lastCall.tool = "refactor_extractMethod"
    /\ lastCall.uri = "b.ts"
    /\ Len(lastCall.answer.syms) = 2
    /\ lastCall.answer.syms[1].uri = "a.ts"
    /\ lastCall.result.status = "success"
    /\ lastCall.result.target.uri = "b.ts"
    /\ "b.ts" \in edited

\* C15: a query with more than one dot, Calc.add.x, resolves to nothing: no
\* position is looked up, no definition and no reference is returned.
C15_ExtraDotsFail ==
    (BySymbol /\ lookup.symbol = CalcAddX) =>
        /\ lookup.result.targets = <<>>
        /\ lookup.result.definitions = <<>>
        /\ lookup.result.references = <<>>

ReferenceSpan(r) ==
    IF "compact" \in DOMAIN r
    THEN [file |-> r.compact[1], sl |-> r.compact[2], sc |-> r.compact[3],
          el |-> r.compact[4], ec |-> r.compact[5]]
    ELSE [file |-> IF "file" \in DOMAIN r THEN r.file ELSE r.uri,
          sl |-> r.range.start.line, sc |-> r.range.start.character,
          el |-> r.range.end.line, ec |-> r.range.end.character]

\* A host span as the tool of the call in progress writes it.
Reported(span) ==
    [file |-> IF lookup.tool = "references" THEN asRelativePath(span.uri) ELSE span.uri,
     sl |-> span.sl, sc |-> span.sc, el |-> span.el, ec |-> span.ec]

ReturnedSpans ==
    {ReferenceSpan(lookup.result.references[k]) :
        k \in 1..Len(lookup.result.references)}

\* The definition spans the host reported during the call, in either shape.
HostDefinitionSpans ==
    {lookup.host.defs.locs[k].span : k \in 1..Len(lookup.host.defs.locs)} \ {NoSpan}

\* The reference spans the host reported for the positions looked up.
HostReferenceSpans ==
    LET uris == IF lookup.tool = "referencesByPosition" THEN {"a.ts"}
                ELSE {lookup.result.targets[k].uri :
                         k \in 1..Len(lookup.result.targets)} \ lookup.host.throwsIn
    IN  UNION {{RefsAt(lookup.host, u).locs[k].span :
                   k \in 1..Len(RefsAt(lookup.host, u).locs)} : u \in uris} \ {NoSpan}

ReferencesCall ==
    /\ lookup.tool \in {"references", "referencesByPosition"}
    /\ lookup.result.status = "references"

\* C17: with includeDeclaration = false no returned reference is a
\* definition span the host reported, and every other reference span the
\* host reported is returned.
C17_DeclarationExcluded ==
    (ReferencesCall /\ ~lookup.includeDeclaration) =>
        /\ \A d \in HostDefinitionSpans : Reported(d) \notin ReturnedSpans
        /\ \A r \in HostReferenceSpans \ HostDefinitionSpans :
              Reported(r) \in ReturnedSpans

OtherFormat(format) == IF format = "compact" THEN "detailed" ELSE "compact"

\* The result of the call in progress had the other format been asked for,
\* the host answering the same.
InOtherFormat ==
    IF lookup.tool = "references"
    THEN findReferencesBySymbol(lookup.symbol, lookup.includeDeclaration,
                                OtherFormat(lookup.format), lookup.answer, lookup.host)
    ELSE IF lookup.tool = "referencesByPosition"
    THEN findReferencesByPosition(lookup.includeDeclaration,
                                  OtherFormat(lookup.format), lookup.host)
    ELSE formatDefinitions(lookup.symbol, OtherFormat(lookup.format), lookup.answer)

ReferenceSpans(result) ==
    [k \in 1..Len(result.references) |-> ReferenceSpan(result.references[k])]

DefinitionSpans(result) ==
    [k \in 1..Len(result.definitions) |-> DefinitionSpan(result.definitions[k])]

\* C18: the compact and the detailed result of the same call on the same
\* host answers describe the same spans, entry by entry: same file, start
\* line and character, end line and character.
C18_CompactMatchesDetailed ==
    (lookup.tool \in {"references", "referencesByPosition", "definition"}
     /\ lookup.result.status # "error") =>
        /\ ReferenceSpans(lookup.result) = ReferenceSpans(InOtherFormat)
        /\ DefinitionSpans(lookup.result) = DefinitionSpans(InOtherFormat)
        /\ lookup.result.status = InOtherFormat.status

\* A compact references result with two entries, the second the usage in
\* app.ts from line 3 character 10 to line 3 character 13.
C18_Witness ==
    /\ lookup.tool = "references" /\ lookup.format = "compact"
    /\ Len(lookup.result.references) = 2
    /\ lookup.result.references[2].compact = <<asRelativePath("app.ts"), 3, 10, 3, 13>>

\* ------------------------------------------------------------- refactor
\* Titles of code actions and the words the handlers look for in them.
\* "Extract to function in module scope"
ExtractToFunction ==
    <<"E", "x", "t", "r", "a", "c", "t", " ", "t", "o", " ", "f", "u", "n",
      "c", "t", "i", "o", "n", " ", "i", "n", " ", "m", "o", "d", "u", "l",
      "e", " ", "s", "c", "o", "p", "e">>

\* "Extract Method"
ExtractMethodTitle ==
    <<"E", "x", "t", "r", "a", "c", "t", " ", "M", "e", "t", "h", "o", "d">>

\* "Extract to constant in enclosing scope"
ExtractToConstant ==
    <<"E", "x", "t", "r", "a", "c", "t", " ", "t", "o", " ", "c", "o", "n",
      "s", "t", "a", "n", "t", " ", "i", "n", " ", "e", "n", "c", "l", "o",
      "s", "i", "n", "g", " ", "s", "c", "o", "p", "e">>

\* "Move to a new file"
MoveToFile ==
    <<"M", "o", "v", "e", " ", "t", "o", " ", "a", " ", "n", "e", "w", " ",
      "f", "i", "l", "e">>

\* "extract"
extract ==
    <<"e", "x", "t", "r", "a", "c", "t">>

\* "method"
method ==
    <<"m", "e", "t", "h", "o", "d">>

\* "function"
function ==
    <<"f", "u", "n", "c", "t", "i", "o", "n">>

\* "variable"
variable ==
    <<"v", "a", "r", "i", "a", "b", "l", "e">>

\* "constant"
constant ==
    <<"c", "o", "n", "s", "t", "a", "n", "t">>

\* "local"
local ==
    <<"l", "o", "c", "a", "l">>

\* A WorkspaceEdit: the documents it changes, and what applyEdit answers
\* for it.
NoEdit == [defined |-> FALSE, files |-> {}, applies |-> FALSE]
WorkspaceEdit(files, applies) == [defined |-> TRUE, files |-> files, applies |-> applies]

\* A Command: the documents its execution changes.
NoCommand == [defined |-> FALSE, modifies |-> {}]
Command(modifies) == [defined |-> TRUE, modifies |-> modifies]

CodeAction(title, edit, command) == [title |-> title, edit |-> edit, command |-> command]
NoAction == CodeAction(NoName, NoEdit, NoCommand)

Documents == {"a.ts", "b.ts"}

\* The edit and command a code action may carry: an edit of one or of two
\* documents that applies or not, a command, neither, or both.
Payloads ==
    {<<WorkspaceEdit(files, applies), NoCommand>> :
        files \in {{"a.ts"}, {"a.ts", "b.ts"}}, applies \in BOOLEAN}
    \cup {<<NoEdit, Command(modifies)>> : modifies \in {{}, {"a.ts"}}}
    \cup {<<NoEdit, NoCommand>>,
          <<WorkspaceEdit({"a.ts"}, TRUE), Command({"b.ts"})>>}

ExtractTitles == {ExtractToFunction, ExtractMethodTitle, ExtractToConstant}

NoActions == [throws |-> FALSE, defined |-> FALSE, actions |-> <<>>]
Actions(actions) == [throws |-> FALSE, defined |-> TRUE, actions |-> actions]
ProviderThrows == [throws |-> TRUE, defined |-> FALSE, actions |-> <<>>]

\* What vscode.executeCodeActionProvider may do for a selection.
CodeActionAnswers ==
    {ProviderThrows, NoActions, Actions(<<>>),
     Actions(<<CodeAction(MoveToFile, WorkspaceEdit({"b.ts"}, TRUE), NoCommand)>>)}
    \cup {Actions(<<CodeAction(MoveToFile, WorkspaceEdit({"b.ts"}, TRUE), NoCommand),
                    CodeAction(title, p[1], p[2])>>) :
            title \in ExtractTitles, p \in Payloads}

\* What vscode.executeDocumentRenameProvider may do for a position.
RenameAnswers ==
    {[throws |-> TRUE, edit |-> NoEdit], [throws |-> FALSE, edit |-> NoEdit]}
    \cup {[throws |-> FALSE, edit |-> WorkspaceEdit(files, applies)] :
            files \in {{}, {"a.ts"}, {"a.ts", "b.ts"}}, applies \in BOOLEAN}

\* The title test of the two extract handlers.
IsWanted(kind, title) ==
    LET t == toLowerCase(title)
    IN  /\ includes(t, extract)
        /\ IF kind = "method"
           THEN includes(t, method) \/ includes(t, function)
           ELSE includes(t, variable) \/ includes(t, constant) \/ includes(t, local)

\* codeActions.find(...)
find(codeActions, kind) ==
    LET wanted == {k \in 1..Len(codeActions) : IsWanted(kind, codeActions[k].title)}
    IN  IF wanted = {} THEN NoAction
        ELSE codeActions[CHOOSE k \in wanted : \A j \in wanted : k <= j]

\* The error texts of the extract handlers.
Errors(kind) ==
    IF kind = "method"
    THEN [noActions |-> "No extract method refactoring available for the selected code",
          notAvailable |-> "Extract method refactoring not available for this selection",
          applyFailed |-> "Failed to apply extract method refactoring",
          neither |-> "Extract method action has no edit or command",
          unknown |-> "Unknown error during extract method operation"]
    ELSE [noActions |->
              "No extract variable refactoring available for the selected expression",
          notAvailable |-> "Extract variable refactoring not available for this selection",
          applyFailed |-> "Failed to apply extract variable refactoring",
          neither |-> "Extract variable action has no edit or command",
          unknown |-> "Unknown error during extract variable operation"]

\* What a handler run leaves: its result, the documents it changed, and the
\* documents left with unsaved changes.
Failed(error, dirtyNow) ==
    [success |-> FALSE, error |-> error, modified |-> {}, dirty |-> dirtyNow]
Succeeded(modified, dirtyAfter) ==
    [success |-> TRUE, error |-> "", modified |-> modified, dirty |-> dirtyAfter]

\* applyCodeAction that takes an action without edit or command as done.
applyCodeAction_NoElse(kind, document, extractAction, dirtyNow) ==
    IF extractAction.edit.defined
    THEN IF ~extractAction.edit.applies
         THEN Failed(Errors(kind).applyFailed, dirtyNow)
         ELSE Succeeded(extractAction.edit.files,
                        (dirtyNow \cup extractAction.edit.files) \ {document})
    ELSE IF extractAction.command.defined
    THEN Succeeded(extractAction.command.modifies,
                   (dirtyNow \cup extractAction.command.modifies) \ {document})
    ELSE Succeeded({}, dirtyNow \ {document})

\* "Apply the code action" and "Save the document": applyEdit of the
\* action's edit, else executeCommand of its command, then document.save().
applyCodeAction(kind, document, extractAction, dirtyNow) ==
    IF extractAction.edit.defined
    THEN IF ~extractAction.edit.applies
         THEN Failed(Errors(kind).applyFailed, dirtyNow)
         ELSE Succeeded(extractAction.edit.files,
                        (dirtyNow \cup extractAction.edit.files) \ {document})
    ELSE IF extractAction.command.defined
    THEN Succeeded(extractAction.command.modifies,
                   (dirtyNow \cup extractAction.command.modifies) \ {document})
    ELSE Failed(Errors(kind).neither, dirtyNow)

\* The handlers from the code action query on.
extractFromSelection(kind, document, answer, dirtyNow) ==
    IF answer.throws THEN Failed(Errors(kind).unknown, dirtyNow)
    ELSE IF ~answer.defined \/ Len(answer.actions) = 0
    THEN Failed(Errors(kind).noActions, dirtyNow)
    ELSE IF find(answer.actions, kind) = NoAction
    THEN Failed(Errors(kind).notAvailable, dirtyNow)
    ELSE applyCodeAction(kind, document, find(answer.actions, kind), dirtyNow)

\* refactor_extractMethod and refactor_extractVariable by position.
extractAt(kind, uri, exists, answer, dirtyNow) ==
    IF ~exists THEN Failed("File not found", dirtyNow)
    ELSE extractFromSelection(kind, uri, answer, dirtyNow)

\* refactor_extractMethod by symbol: the resolution of the function, then
\* the code action of the selection found in it.
extractMethodIn(providedUri, searchResult, patternFound, answer, dirtyNow) ==
    LET resolution == extractMethod(providedUri, searchResult,
                                    IF patternFound THEN "noActions"
                                    ELSE "noPattern").result
    IN  IF resolution.status # "no_actions"
        THEN Failed(resolution.status, dirtyNow)
        ELSE extractFromSelection("method",
                 FilterByUri(searchResult.syms, providedUri)[1].uri, answer, dirtyNow)

\* vscode.workspace.saveAll(false): the documents left unsaved.
saveAll(dirtyNow, document) == {}

\* refactor_rename
rename(uri, exists, answer, dirtyNow) ==
    IF ~exists THEN Failed("File not found", dirtyNow)
    ELSE IF answer.throws
    THEN Failed("Unknown error during rename operation", dirtyNow)
    ELSE IF ~answer.edit.defined
    THEN Failed("No rename provider available or symbol cannot be renamed at this location",
                dirtyNow)
    ELSE IF ~answer.edit.applies
    THEN Failed("Failed to apply rename operation", dirtyNow)
    ELSE Succeeded(answer.edit.files, saveAll(dirtyNow \cup answer.edit.files, uri))

\* document.getText(document.getWordRangeAtPosition(position)): the word at
\* the renamed position, which an applied rename edit of the document has
\* replaced by the new name.
getWordAtPosition(uri, edit, wordBefore, newName) ==
    IF edit.defined /\ edit.applies /\ uri \in edit.files THEN newName ELSE wordBefore

NoRenamed == [oldName |-> "", newName |-> "", filesChanged |-> 0]

\* The renamedSymbol and filesChanged of a successful rename: the entries
\* are counted from the edit, the old name is read from the document after
\* applyEdit and saveAll.
renamedSymbol(uri, answer, wordBefore, newName) ==
    IF ~rename(uri, TRUE, answer, {}).success THEN NoRenamed
    ELSE [oldName |-> getWordAtPosition(uri, answer.edit, wordBefore, newName),
          newName |-> newName,
          filesChanged |-> Cardinality(answer.edit.files)]

NewNames == {"computeSum", "sum"}

NoRefactor ==
    [tool |-> "", kind |-> "", uri |-> NoUri, exists |-> FALSE,
     wordBefore |-> "", newName |-> "", report |-> NoRenamed,
     searchResult |-> NoResult, answer |-> NoActions,
     renamed |-> [throws |-> FALSE, edit |-> NoEdit], asked |-> FALSE,
     dirtyBefore |-> {}, out |-> Failed("", {})]

\* One call at a time: a call is made when none is in progress.
ExtractMethodAt ==
    /\ refactor = NoRefactor
    /\ \E uri \in Documents, exists \in BOOLEAN :
       \E answer \in IF exists THEN CodeActionAnswers ELSE {NoActions} :
         LET out == extractAt("method", uri, exists, answer, dirty)
         IN  /\ dirty' = out.dirty
             /\ refactor' = [NoRefactor EXCEPT !.tool = "refactor_extractMethod",
                               !.kind = "method", !.uri = uri, !.exists = exists,
                               !.asked = exists,
                               !.answer = answer, !.dirtyBefore = dirty, !.out = out]

ExtractVariable ==
    /\ refactor = NoRefactor
    /\ \E uri \in Documents, exists \in BOOLEAN :
       \E answer \in IF exists THEN CodeActionAnswers ELSE {NoActions} :
         LET out == extractAt("variable", uri, exists, answer, dirty)
         IN  /\ dirty' = out.dirty
             /\ refactor' = [NoRefactor EXCEPT !.tool = "refactor_extractVariable",
                               !.kind = "variable", !.uri = uri, !.exists = exists,
                               !.asked = exists,
                               !.answer = answer, !.dirtyBefore = dirty, !.out = out]

\* The code actions are asked for only when one function was resolved and
\* the pattern was found in it.
ExtractMethodIn ==
    /\ refactor = NoRefactor
    /\ \E providedUri \in UriFilters, searchResult \in HostAnswers,
          patternFound \in BOOLEAN :
       \E answer \in IF extractMethodIn(providedUri, searchResult, patternFound,
                                        NoActions, dirty).error
                         = Errors("method").noActions
                     THEN CodeActionAnswers ELSE {NoActions} :
         LET out == extractMethodIn(providedUri, searchResult, patternFound, answer,
                                    dirty)
             matches == FilterByUri(searchResult.syms, providedUri)
         IN  /\ dirty' = out.dirty
             /\ refactor' = [NoRefactor EXCEPT !.tool = "refactor_extractMethodBySymbol",
                               !.kind = "method",
                               !.uri = IF Len(matches) = 1 THEN matches[1].uri
                                       ELSE NoUri,
                               !.exists = TRUE, !.searchResult = searchResult,
                               !.asked = extractMethodIn(providedUri, searchResult,
                                             patternFound, NoActions, dirty).error
                                         = Errors("method").noActions,
                               !.answer = answer, !.dirtyBefore = dirty, !.out = out]

Rename ==
    /\ refactor = NoRefactor
    /\ \E uri \in Documents, exists \in BOOLEAN, newName \in NewNames :
       \E answer \in IF exists THEN RenameAnswers
                     ELSE {[throws |-> FALSE, edit |-> NoEdit]} :
         LET out == rename(uri, exists, answer, dirty)
         IN  /\ dirty' = out.dirty
             /\ refactor' = [NoRefactor EXCEPT !.tool = "refactor_rename",
                               !.wordBefore = "calculateTotal", !.newName = newName,
                               !.report = IF exists
                                          THEN renamedSymbol(uri, answer,
                                                   "calculateTotal", newName)
                                          ELSE NoRenamed,
                               !.kind = "rename", !.uri = uri, !.exists = exists,
                               !.asked = exists, !.renamed = answer, !.dirtyBefore = dirty, !.out = out]

\* The result is handed to the caller.
RefactorReturns ==
    /\ refactor # NoRefactor
    /\ refactor' = NoRefactor
    /\ UNCHANGED dirty

InitRefactorVars ==
    /\ dirty = {}
    /\ refactor = NoRefactor

NextRefactor ==
    \/ ExtractMethodAt /\ UNCHANGED nonRefactorVars
    \/ ExtractVariable /\ UNCHANGED nonRefactorVars
    \/ ExtractMethodIn /\ UNCHANGED nonRefactorVars
    \/ Rename /\ UNCHANGED nonRefactorVars
    \/ RefactorReturns /\ UNCHANGED nonRefactorVars

\* ------------------------------------------------------------ C19, C20
\* The action the handler of the call in progress picks from the host's list.
Chosen == find(refactor.answer.actions, refactor.kind)

\* The host threw where it was asked for the edit or the actions.
HostThrew ==
    IF refactor.kind = "rename" THEN refactor.renamed.throws ELSE refactor.answer.throws

\* The host offers nothing of the requested kind: no rename edit; no code
\* actions, none with a matching title, or one with neither edit nor command.
NotOffered ==
    IF refactor.kind = "rename" THEN ~refactor.renamed.edit.defined
    ELSE \/ ~refactor.answer.defined
         \/ Len(refactor.answer.actions) = 0
         \/ \A k \in 1..Len(refactor.answer.actions) :
                ~IsWanted(refactor.kind, refactor.answer.actions[k].title)
         \/ ~Chosen.edit.defined /\ ~Chosen.command.defined

\* An edit of the requested kind was applied, or its command was executed.
WasApplied ==
    IF refactor.kind = "rename"
    THEN refactor.renamed.edit.defined /\ refactor.renamed.edit.applies
    ELSE /\ ~NotOffered
         /\ \/ Chosen.edit.defined /\ Chosen.edit.applies
            \/ ~Chosen.edit.defined /\ Chosen.command.defined

NotAvailableErrors ==
    IF refactor.kind = "rename"
    THEN {"No rename provider available or symbol cannot be renamed at this location"}
    ELSE {Errors(refactor.kind).noActions, Errors(refactor.kind).notAvailable,
          Errors(refactor.kind).neither}

\* C19: a rename, extract method or extract variable call returns success
\* only if an edit or command of the requested kind was applied; when the
\* host offers none (no actions, no title match, an action with neither
\* edit nor command, no rename edit) the call returns an error that says so
\* and changes no document.
C19_SuccessOnlyIfApplied ==
    refactor.tool # "" =>
        /\ refactor.out.success => refactor.asked /\ ~HostThrew /\ WasApplied
        /\ NotOffered =>
              /\ ~refactor.out.success
              /\ refactor.out.error # ""
              /\ refactor.out.modified = {}
              /\ dirty = refactor.dirtyBefore
        /\ (refactor.asked /\ ~HostThrew /\ NotOffered) =>
              refactor.out.error \in NotAvailableErrors

\* An extract variable call for which the host lists a move action and an
\* "Extract to constant" action that has neither edit nor command.
C19_Witness ==
    /\ refactor.tool = "refactor_extractVariable"
    /\ refactor.asked
    /\ Len(refactor.answer.actions) = 2
    /\ Chosen.title = ExtractToConstant
    /\ ~Chosen.edit.defined /\ ~Chosen.command.defined
    /\ refactor.out.error = "Extract variable action has no edit or command"
    /\ dirty = refactor.dirtyBefore

\* The edit the call in progress hands to applyEdit, if it does.
EditToApply ==
    IF refactor.kind = "rename" THEN refactor.renamed.edit
    ELSE IF NotOffered THEN NoEdit
    ELSE Chosen.edit

\* C20: a refactor call returns success only after its edit was applied and
\* every document the call changed has been saved; when applyEdit fails no
\* success is returned.
C20_SuccessAfterApplyAndSave ==
    refactor.tool # "" =>
        /\ refactor.out.success => refactor.out.modified \cap dirty = {}
        /\ (EditToApply.defined /\ ~EditToApply.applies) => ~refactor.out.success

\* ------------------------------------------------------ specifications
\* ------------------------------------------------------------------ C21
\* C21: a successful rename reports filesChanged >= 1, as oldName the name
\* the symbol had before the rename and as newName the requested name.
C21_RenameReportsOldAndNewName ==
    (refactor.tool = "refactor_rename" /\ refactor.out.success) =>
        /\ refactor.report.filesChanged >= 1
        /\ refactor.report.oldName = refactor.wordBefore
        /\ refactor.report.newName = refactor.newName

\* ------------------------------------------------------------------ C22
\* C22: in the tools that loop over several candidates, a host call that
\* throws for one candidate loses that candidate only: what the host
\* reports for every other candidate is in the result.
C22_ThrowLosesOneCandidate ==
    /\ (lookup.tool = "references" /\ lookup.result.status = "references"
        /\ lookup.includeDeclaration) =>
           \A r \in HostReferenceSpans : Reported(r) \in ReturnedSpans
    /\ lookup.tool = "callHierarchy" =>
           \A k \in 1..Len(lookup.result.used) :
              lookup.result.used[k].uri \notin lookup.host.throwsIn =>
                 \E j \in 1..Len(lookup.result.targets) :
                    lookup.result.targets[j] = lookup.result.used[k]

\* ------------------------------------------------------------------ C23
\* One step of call j, whichever it is.
CallStep(j) ==
    \/ StartSearch(j) \/ EnsureFindFiles(j) \/ EnsureOpenFile(j) \/ EnsureWait500(j)
    \/ EnsureCommonQuery(j) \/ EnsureDelay(j) \/ EnsureRetry(j) \/ MarkSymbol(j)
    \/ SearchQuery(j) \/ SearchDelay(j) \/ SearchRetry(j)
    \/ StartDoc(j) \/ DocQuery(j) \/ DocDelay(j) \/ DocRetry(j)

InDelay(c) == c.pc \in {"delay", "e_delay", "d_delay"}

\* C23: while one invocation waits in a retry delay, another invocation is
\* not blocked: it can start, and each of its steps up to its return can
\* be taken, without the waiting invocation resuming.
C23_DelayDoesNotBlockOthers ==
    \A i \in CallIds : \A j \in CallIds \ {i} :
        InDelay(calls[i]) =>
            /\ calls[j].pc = "idle" => ENABLED StartSearch(j)
            /\ calls[j].pc # "done" => ENABLED (CallStep(j) /\ calls'[i] = calls[i])

\* A search waits in its first retry delay (it has made one query and waited
\* through no delay yet) while another search has returned a non-empty
\* answer.
C23_Witness ==
    \E i \in CallIds : \E j \in CallIds \ {i} :
        /\ IsSearch(calls[i]) /\ calls[i].pc = "delay"
        /\ calls[i].nQueries = 1 /\ calls[i].waits = <<>>
        /\ IsSearch(calls[j]) /\ calls[j].pc = "done" /\ ~IsEmpty(calls[j].ret)

\* ------------------------------------------------- debug session, output
NoSession == "none"
SessionIds == {"s1", "s2"}

ok == <<"o", "k">>
failedLine == <<"f", "a", "i", "l", "e", "d", " ">>

\* The entries the tracker may record for the output events of a session.
OutputEntries ==
    [sessionId : SessionIds, category : {"stdout", "stderr"}, output : {ok, failedLine}]

\* String.prototype.trim, for spaces.
RECURSIVE trim(_)
trim(text) ==
    IF text = <<>> THEN text
    ELSE IF Head(text) = " " THEN trim(Tail(text))
    ELSE IF text[Len(text)] = " " THEN trim(SubSeq(text, 1, Len(text) - 1))
    ELSE text

\* debugOutputTracker.getOutputs(sessionId, {category, limit, filter}): the
\* session's entries of the category that contain the filter text, the most
\* recent `limit` of them.
getOutputs(sessionId, category, limit, filter) ==
    LET Wanted(e) ==
            /\ e.sessionId = sessionId
            /\ category = "undefined" \/ e.category = category
            /\ filter = NoName \/ includes(e.output, filter)
        selected == SelectSeq(outputs, Wanted)
    IN  IF Len(selected) > limit
        THEN SubSeq(selected, Len(selected) - limit + 1, Len(selected))
        ELSE selected

\* What a debug handler gives back: it threw, or a result with an error, or
\* a result with the fields of its action.
DebugResult ==
    [threw |-> FALSE, error |-> "", active |-> "absent", stopped |-> FALSE,
     outputs |-> <<>>, total |-> -1]

\* getOutput that answers an error when nothing was recorded.
getOutput_ErrorWhenEmpty(category, limit, filter, format) ==
    LET found == getOutputs(activeDebugSession,
                            IF category = "all" THEN "undefined" ELSE category,
                            limit, filter)
    IN  IF activeDebugSession = NoSession
        THEN [DebugResult EXCEPT
                !.error = IF format = "compact" THEN "no_session"
                          ELSE "No active debug session"]
        ELSE IF Len(found) = 0
        THEN [DebugResult EXCEPT !.error = "output_failed"]
        ELSE [DebugResult EXCEPT
                !.outputs = [k \in 1..Len(found) |->
                               IF format = "compact"
                               THEN <<found[k].category, trim(found[k].output)>>
                               ELSE [category |-> found[k].category,
                                     text |-> found[k].output]],
                !.total = Len(found)]

\* debug_getOutput
getOutput(category, limit, filter, format) ==
    LET found == getOutputs(activeDebugSession,
                            IF category = "all" THEN "undefined" ELSE category,
                            limit, filter)
    IN  IF activeDebugSession = NoSession
        THEN [DebugResult EXCEPT
                !.error = IF format = "compact" THEN "no_session"
                          ELSE "No active debug session"]
        ELSE [DebugResult EXCEPT
                !.outputs = [k \in 1..Len(found) |->
                               IF format = "compact"
                               THEN <<found[k].category, trim(found[k].output)>>
                               ELSE [category |-> found[k].category,
                                     text |-> found[k].output]],
                !.total = Len(found)]

\* debug, action 'status'
status(format) ==
    [DebugResult EXCEPT
       !.active = IF activeDebugSession # NoSession THEN "true" ELSE "false"]

\* debug, action 'stop': what is returned, and whether stopDebugging was
\* called.
stop(format) ==
    IF activeDebugSession = NoSession
    THEN [DebugResult EXCEPT
            !.error = IF format = "compact" THEN "no_session"
                      ELSE "No active debug session"]
    ELSE [DebugResult EXCEPT !.stopped = TRUE]

\* The debug tool of src/tools/debug.ts: 'stop' calls stopDebugging and
\* answers "stopped"; 'status' is not one of its actions.
debugToolHandler(action, format) ==
    IF action = "stop" THEN [DebugResult EXCEPT !.stopped = TRUE]
    ELSE [DebugResult EXCEPT
            !.error = IF format = "compact" THEN "unknown_action"
                      ELSE "Unknown debug action"]

NoDebugCall ==
    [tool |-> "", action |-> "", format |-> "", sessionBefore |-> NoSession,
     category |-> "", filter |-> NoName, matching |-> 0, result |-> DebugResult]

DebugCalled(tool, action, format, result) ==
    [NoDebugCall EXCEPT !.tool = tool, !.action = action, !.format = format,
                        !.sessionBefore = activeDebugSession, !.result = result]

\* vscode.debug.startDebugging succeeded: a session is active.
SessionStarts ==
    /\ debugCall = NoDebugCall
    /\ activeDebugSession = NoSession
    /\ \E id \in SessionIds : activeDebugSession' = id
    /\ UNCHANGED <<outputs, debugCall>>

\* The debugged program ended.
SessionEnds ==
    /\ debugCall = NoDebugCall
    /\ activeDebugSession # NoSession
    /\ activeDebugSession' = NoSession
    /\ UNCHANGED <<outputs, debugCall>>

\* The active session emitted output and the tracker recorded it.
OutputRecorded ==
    /\ debugCall = NoDebugCall
    /\ activeDebugSession # NoSession
    /\ Len(outputs) < MaxOutputs
    /\ \E e \in OutputEntries :
          /\ e.sessionId = activeDebugSession
          /\ outputs' = Append(outputs, e)
    /\ UNCHANGED <<activeDebugSession, debugCall>>

DebugStatus ==
    /\ debugCall = NoDebugCall
    /\ \E format \in Formats :
          debugCall' = DebugCalled("debug", "status", format, status(format))
    /\ UNCHANGED <<activeDebugSession, outputs>>

DebugStop ==
    /\ debugCall = NoDebugCall
    /\ \E format \in Formats :
          debugCall' = DebugCalled("debug", "stop", format, stop(format))
    /\ activeDebugSession' = NoSession
    /\ UNCHANGED outputs

\* The debug tool of src/tools/debug.ts is called with stop or status.
DebugToolCall ==
    /\ debugCall = NoDebugCall
    /\ \E action \in {"stop", "status"}, format \in Formats :
          /\ debugCall' = DebugCalled("debug.ts", action, format,
                                      debugToolHandler(action, format))
          /\ activeDebugSession' =
                IF action = "stop" THEN NoSession ELSE activeDebugSession
    /\ UNCHANGED outputs

DebugGetOutput ==
    /\ debugCall = NoDebugCall
    /\ \E category \in {"all", "stdout", "stderr"}, limit \in {1, 100},
          filter \in {NoName, ok, <<"x">>}, format \in Formats :
          debugCall' =
              [DebugCalled("debug_getOutput", "", format,
                           getOutput(category, limit, filter, format))
                 EXCEPT !.category = category, !.filter = filter,
                        !.matching = Len(getOutputs(activeDebugSession, "undefined",
                                                    100, NoName))]
    /\ UNCHANGED <<activeDebugSession, outputs>>

\* The result is handed to the caller.
DebugReturns ==
    /\ debugCall # NoDebugCall
    /\ debugCall' = NoDebugCall
    /\ UNCHANGED <<activeDebugSession, outputs>>

InitDebugVars ==
    /\ activeDebugSession = NoSession
    /\ outputs = <<>>
    /\ debugCall = NoDebugCall

NextDebug ==
    \/ SessionStarts /\ UNCHANGED nonDebugVars
    \/ SessionEnds /\ UNCHANGED nonDebugVars
    \/ OutputRecorded /\ UNCHANGED nonDebugVars
    \/ DebugStatus /\ UNCHANGED nonDebugVars
    \/ DebugStop /\ UNCHANGED nonDebugVars
    \/ DebugToolCall /\ UNCHANGED nonDebugVars
    \/ DebugGetOutput /\ UNCHANGED nonDebugVars
    \/ DebugReturns /\ UNCHANGED nonDebugVars

\* ------------------------------------------------------------ C24, C25
\* C24: a stop or a status query made while no debug session is active
\* does not throw and returns a result that says no session is active.
C24_NoSessionIsReported ==
    (debugCall.action \in {"stop", "status"} /\ debugCall.sessionBefore = NoSession) =>
        /\ ~debugCall.result.threw
        /\ IF debugCall.action = "status"
           THEN debugCall.result.active = "false"
           ELSE debugCall.result.error \in {"no_session", "No active debug session"}

\* C25: debug_getOutput for a session that has no recorded entries returns
\* an empty output list and no error.
C25_NoEntriesGivesEmptyList ==
    (debugCall.tool = "debug_getOutput" /\ debugCall.sessionBefore # NoSession
     /\ debugCall.matching = 0) =>
        /\ ~debugCall.result.threw
        /\ debugCall.result.error = ""
        /\ debugCall.result.outputs = <<>>
        /\ debugCall.result.total = 0

\* debug_getOutput while session s2 is active and the tracker holds entries
\* of session s1 only.
C25_Witness ==
    /\ debugCall.tool = "debug_getOutput"
    /\ debugCall.sessionBefore = "s2"
    /\ Len(outputs) > 0
    /\ \A k \in 1..Len(outputs) : outputs[k].sessionId = "s1"
    /\ debugCall.result.outputs = <<>>
    /\ debugCall.result.error = ""

DEFAULT_CODE_PATTERNS == <<"**/*.js", "**/*.ts", "**/*.py">>

NoPattern == ""
FilePatterns == {NoPattern, "**/*.ts", "**/*"}

\* The files of the workspace a glob pattern matches.
FilesMatching(pattern) ==
    IF pattern = "**/*.js" THEN <<"a.js">>
    ELSE IF pattern = "**/*.ts" THEN <<"a.ts", "b.ts">>
    ELSE IF pattern = "**/*.py" THEN <<"m.py", "n.py">>
    ELSE IF pattern = "**/*" THEN <<"a.js", "a.ts", "b.ts", "m.py", "n.py">>
    ELSE <<>>

\* What vscode.workspace.findFiles(pattern, exclude, maxResults) may answer:
\* files the pattern matches, no more than maxResults of them.
findFiles(pattern, maxResults) ==
    {SubSeq(FilesMatching(pattern), 1, n) :
        n \in 0..Min(maxResults, Len(FilesMatching(pattern)))}

\* remainingSlots that is the whole of maxFiles at every pattern.
remainingSlots_Whole(maxFiles, allFiles) == maxFiles

\* const remainingSlots = maxFiles - allFiles.length
remainingSlots(maxFiles, allFiles) == maxFiles - Len(allFiles)

\* patternFiles.slice(0, remainingSlots)
slice(patternFiles, n) == SubSeq(patternFiles, 1, Min(Len(patternFiles), n))

NoCollection ==
    [pc |-> "idle", maxFiles |-> 0, filePattern |-> NoPattern, k |-> 0,
     allFiles |-> <<>>, files |-> <<>>, result |-> {}]

\* workspaceSymbols is called.
CollectionStarts ==
    /\ collection.pc = "idle"
    /\ \E maxFiles \in 0..MaxFilesArg, filePattern \in FilePatterns :
          collection' = [NoCollection EXCEPT !.maxFiles = maxFiles,
                           !.filePattern = filePattern, !.k = 1,
                           !.pc = IF filePattern # NoPattern THEN "pattern"
                                  ELSE "loop"]

\* The user's pattern: files = findFiles(filePattern, exclude, maxFiles).
FindUserPattern ==
    /\ collection.pc = "pattern"
    /\ \E found \in findFiles(collection.filePattern, collection.maxFiles) :
          collection' = [collection EXCEPT !.files = found, !.pc = "process"]

\* One round of the loop over the default patterns, or its end.
FindDefaultPattern ==
    /\ collection.pc = "loop"
    /\ IF collection.k > Len(DEFAULT_CODE_PATTERNS)
          \/ Len(collection.allFiles) >= collection.maxFiles
       THEN collection' = [collection EXCEPT !.files = collection.allFiles,
                                             !.pc = "process"]
       ELSE \E patternFiles \in
                 findFiles(DEFAULT_CODE_PATTERNS[collection.k],
                           remainingSlots(collection.maxFiles, collection.allFiles)) :
               collection' =
                   [collection EXCEPT
                      !.allFiles = @ \o slice(patternFiles,
                                              remainingSlots(collection.maxFiles,
                                                             collection.allFiles)),
                      !.k = @ + 1]

\* The loop over the files: each file gets an entry of the result or is
\* skipped.
ProcessFiles ==
    /\ collection.pc = "process"
    /\ \E kept \in SUBSET {collection.files[n] : n \in 1..Len(collection.files)} :
          collection' = [collection EXCEPT !.result = kept, !.pc = "done"]

\* The result is handed to the caller.
CollectionReturns ==
    /\ collection.pc = "done"
    /\ collection' = NoCollection

InitCollectionVars == collection = NoCollection

NextCollection ==
    \/ CollectionStarts /\ UNCHANGED nonCollectionVars
    \/ FindUserPattern /\ UNCHANGED nonCollectionVars
    \/ FindDefaultPattern /\ UNCHANGED nonCollectionVars
    \/ ProcessFiles /\ UNCHANGED nonCollectionVars
    \/ CollectionReturns /\ UNCHANGED nonCollectionVars

\* ------------------------------------------------------------------ C27
\* C27: for any maxFiles >= 0, with or without a filePattern, the files
\* collected never number more than maxFiles at any point of the loop, and
\* the result has at most maxFiles files.
C27_AtMostMaxFiles ==
    /\ Len(collection.allFiles) <= collection.maxFiles
    /\ Len(collection.files) <= collection.maxFiles
    /\ Cardinality(collection.result) <= collection.maxFiles

\* A call with maxFiles = 3 and no filePattern, done: a.js, then the two
\* .ts files filled the three slots and the loop ended before the .py
\* pattern.
C27_Witness ==
    /\ collection.pc = "done"
    /\ collection.filePattern = NoPattern
    /\ collection.maxFiles = 3
    /\ collection.allFiles = <<"a.js", "a.ts", "b.ts">>
    /\ collection.k = 3
    /\ Cardinality(collection.result) = 3

\* ------------------------------------------------------------------ C28
\* The calls that started the readiness check after the last reset
\* (sinceReset is set when a call enters ensureLanguageServersReady and
\* cleared for every call by resetInitializedLanguages).
ChecksSinceReset == {i \in CallIds : calls[i].sinceReset}

\* C28: between two resets ensureLanguageServersReady runs at most once,
\* also when several searchWorkspaceSymbols calls start before the first
\* has completed.
C28_CheckRunsOncePerReset == Cardinality(ChecksSinceReset) <= 1

\* ------------------------------------------- extension: start and stop
\* No command in progress. `message` is what the last command showed, `via`
\* how it was invoked, `starts` the number of HTTPBridge.start() calls.
Quiet == [pc |-> "none", via |-> "none", message |-> "", starts |-> 0]

\* vscode-mcp.startServer
startServerCommand(via) ==
    /\ serverCommand.pc = "none"
    /\ IF httpBridge
       THEN /\ serverCommand' = [serverCommand EXCEPT !.via = via,
                                          !.message = "already running"]
            /\ UNCHANGED <<httpBridge, listening, portInUse>>
       ELSE /\ serverCommand.starts < MaxStarts
            /\ httpBridge' = TRUE          \* httpBridge = new HTTPBridge(port)
            /\ serverCommand' = [serverCommand EXCEPT !.pc = "starting",
                                          !.via = via,
                                          !.message = "", !.starts = @ + 1]
            /\ UNCHANGED <<listening, portInUse>>

\* await httpBridge.start(): listen() calls back, the promise resolves.
StartResolves ==
    /\ serverCommand.pc = "starting"
    /\ ~portInUse
    /\ listening' = TRUE
    /\ serverCommand' = [serverCommand EXCEPT !.pc = "none", !.message = "started"]
    /\ UNCHANGED <<httpBridge, portInUse>>

\* await httpBridge.start(): the server emits 'error' (the port is taken),
\* the promise rejects and the catch shows the failure.
StartRejects ==
    /\ serverCommand.pc = "starting"
    /\ portInUse
    /\ serverCommand' = [serverCommand EXCEPT !.pc = "none",
                                              !.message = "failed to start"]
    /\ UNCHANGED <<httpBridge, listening, portInUse>>

\* vscode-mcp.stopServer
stopServerCommand(via) ==
    /\ serverCommand.pc = "none"
    /\ IF ~httpBridge
       THEN serverCommand' = [serverCommand EXCEPT !.via = via,
                                                  !.message = "not running"]
       ELSE serverCommand' = [serverCommand EXCEPT !.pc = "stopping", !.via = via,
                                      !.message = ""]
    /\ UNCHANGED <<httpBridge, listening, portInUse>>

\* await httpBridge.stop(): close() calls back with no error or with
\* ERR_SERVER_NOT_RUNNING, or the timeout fires; each resolves, and the
\* command clears the variable.
StopResolves ==
    /\ serverCommand.pc = "stopping"
    /\ listening' = FALSE
    /\ httpBridge' = FALSE
    /\ serverCommand' = [serverCommand EXCEPT !.pc = "none", !.message = "stopped"]
    /\ UNCHANGED portInUse

\* vscode-mcp.toggleServer
toggleServerCommand ==
    IF httpBridge THEN stopServerCommand("toggle")
    ELSE startServerCommand("toggle")

\* Another process takes the port while the bridge does not hold it.
PortTaken ==
    /\ ~listening /\ ~portInUse
    /\ portInUse' = TRUE
    /\ UNCHANGED <<httpBridge, listening, serverCommand>>

\* The other process lets go of the port.
PortReleased ==
    /\ portInUse
    /\ portInUse' = FALSE
    /\ UNCHANGED <<httpBridge, listening, serverCommand>>

InitExtensionVars ==
    /\ httpBridge = FALSE
    /\ listening = FALSE
    /\ portInUse \in BOOLEAN
    /\ serverCommand = Quiet

NextExtension ==
    \/ startServerCommand("command") /\ UNCHANGED nonExtensionVars
    \/ StartResolves /\ UNCHANGED nonExtensionVars
    \/ StartRejects /\ UNCHANGED nonExtensionVars
    \/ stopServerCommand("command") /\ UNCHANGED nonExtensionVars
    \/ StopResolves /\ UNCHANGED nonExtensionVars
    \/ toggleServerCommand /\ UNCHANGED nonExtensionVars
    \/ PortTaken /\ UNCHANGED nonExtensionVars
    \/ PortReleased /\ UNCHANGED nonExtensionVars

\* ------------------------------------------------------------------ C29
\* C29: whenever no start or stop command is in progress, httpBridge is set
\* if and only if a bridge is listening; 'already running' is shown only
\* while a started bridge listens, and a startServer after a failed start
\* starts again instead of showing it.
C29_BridgeSetIffListening ==
    serverCommand.pc = "none" =>
        /\ httpBridge <=> listening
        /\ serverCommand.message = "already running" => listening

\* ------------------------------------------------------------------ C30
\* A toggleBreakpoint call that got as far as a location.
ToggledAt(call) ==
    /\ call.tool = "debug"
    /\ call.action = "toggleBreakpoint"
    /\ call.result.status \in {"added", "removed"}

\* The breakpoints at a location.
BreakpointsAt(bps, target) == {i \in 1..Len(bps) : bps[i] = target}

\* A toggle at a location without a breakpoint answers 'added' and adds
\* exactly one breakpoint there.
ToggleAdds ==
    (ToggledAt(lastCall)
     /\ BreakpointsAt(lastCall.bpsBefore, lastCall.result.target) = {}) =>
        /\ lastCall.result.status = "added"
        /\ breakpoints = Append(lastCall.bpsBefore, lastCall.result.target)
        /\ Cardinality(BreakpointsAt(breakpoints, lastCall.result.target)) = 1

\* A toggle at the location the call before it added a breakpoint at
\* answers 'removed' and leaves the breakpoints that call started from.
ToggleAgainRestores ==
    (/\ ToggledAt(lastCall) /\ lastCall.result.status = "added"
     /\ ToggledAt(lastCall')
     /\ lastCall'.result.target = lastCall.result.target) =>
        /\ lastCall'.result.status = "removed"
        /\ breakpoints' = lastCall.bpsBefore

Init ==
    /\ InitBridgeVars
    /\ InitSymVars
    /\ InitToolVars
    /\ InitLookupVars
    /\ InitRefactorVars
    /\ InitDebugVars
    /\ InitCollectionVars
    /\ InitExtensionVars

SpecBridge == Init /\ [][NextBridge]_vars

SpecSymbols == Init /\ [][NextSymbols]_vars

SpecTools == Init /\ [][NextTools]_vars

SpecLookup == Init /\ [][NextLookup]_vars

SpecRefactor == Init /\ [][NextRefactor]_vars

SpecDebug == Init /\ [][NextDebug]_vars

SpecCollection == Init /\ [][NextCollection]_vars

SpecExtension == Init /\ [][NextExtension]_vars
====
